---- MODULE Spec2Model ----
(***************************************************************************)
(* Inventory Intelligence Engine of the Pharma repository:                 *)
(*   src/ai_models.py  SmartReordering, ExpiryPredictor                    *)
(*   src/database.py   DatabaseManager (the tables and queries they read)  *)
(*                                                                         *)
(* Numbers.  The Python code computes in floats.  Every number of the      *)
(* model is an exact rational [kind |-> "num", num, den] (den > 0), and    *)
(* the input sets below keep the values dyadic and small, so that every    *)
(* float operation of the modelled code is exact on them and the rational  *)
(* result is the float result.  SQL NULL reaches the code either as        *)
(* Python None (kind "none") or as float NaN (kind "nan"); float('inf') is *)
(* kind "inf".                                                             *)
(***************************************************************************)
EXTENDS Integers, Sequences, FiniteSets, TLC

VARIABLES
    purchase_orders,      \* table purchase_orders, in id order
    alerts,               \* table alerts, in id order
    success,              \* what the last button handler's database call returned
    supplier_rows,        \* table suppliers with its score columns, in id order
    supplier_analysis,    \* what analyze_suppliers returned
    frame,                \* the date and consumption rows handed to prepare_features
    features,             \* what prepare_features returned
    last_row,             \* the row _generate_future_forecast updates and feeds to the model
    future,               \* arguments, position and forecast of a _generate_future_forecast call
    rec_call,             \* forecast_result and current_stock handed to generate_recommendations
    recommendations,      \* what generate_recommendations returned
    item,                 \* the row handed to analyze_item_for_reorder
    suggestion,           \* what analyze_item_for_reorder returned for it
    order_qty,       \* what calculate_order_quantity returned for its numbers
    inventory,            \* table inventory, in id order
    consumption_patterns, \* table consumption_patterns: rows of the trailing 30 days
    ret,                  \* return value of the last DatabaseManager / SmartReordering call
    profiles,             \* the supplier collection handed to the Supplier Scorer
    last_call,            \* the latest optimize_supplier_selection call and its result
    prev_call,            \* the call before it
    history,              \* consumption history and stock read by predict_expiry_risk
    assessment,           \* what predict_expiry_risk returned
    score_inputs,         \* trend and consumption handed to calculate_risk_score
    risk,                 \* the latest calculate_risk_score call and its result
    prev_risk,            \* the call before it
    wastage_inputs,       \* the arguments of predict_wastage
    wastage,              \* what predict_wastage returned
    request,              \* historical_data, forecast_days and model_type of a forecast
    forecast_result,      \* what generate_forecast returned for the request
    scaler,               \* AIForecasting.scaler, shared by all calls
    models,               \* AIForecasting.models, shared by all calls
    pc,                   \* position of each overlapping generate_forecast call
    calls,                \* arguments and local variables of the overlapping calls
    results               \* what each overlapping call returned

vars == <<purchase_orders, alerts, success,
          supplier_rows, supplier_analysis,
          frame, features,
          last_row, future,
          rec_call, recommendations,
          item, suggestion, order_qty, inventory, consumption_patterns, ret,
          profiles, last_call, prev_call, history, assessment,
          score_inputs, risk, prev_risk, wastage_inputs, wastage,
          request, forecast_result, scaler, models, pc, calls, results>>

itemVars == <<item, suggestion, order_qty>>
dbVars == <<inventory, consumption_patterns, ret>>
supplierVars == <<profiles, last_call, prev_call>>
expiryVars == <<history, assessment>>
scoreVars == <<score_inputs, risk, prev_risk, wastage_inputs, wastage>>
forecastVars == <<request, forecast_result, scaler, models, pc, calls, results>>
orderVars == <<purchase_orders, alerts, success>>
supplierTableVars == <<supplier_rows, supplier_analysis>>
featureVars == <<frame, features>>
futureVars == <<last_row, future>>
recVars == <<rec_call, recommendations>>

(***************************************************************************)
(* Float / None values and the Python operators used on them.              *)
(***************************************************************************)
Num(n, d) == [kind |-> "num", num |-> n, den |-> d]
Flt(n) == Num(n, 1)
None == [kind |-> "none", num |-> 0, den |-> 1]
NaN == [kind |-> "nan", num |-> 0, den |-> 1]
Inf == [kind |-> "inf", num |-> 1, den |-> 1]

IsNum(a) == a.kind = "num"

RECURSIVE Gcd(_, _)
Gcd(a, b) == IF b = 0 THEN a ELSE Gcd(b, a % b)

Abs(n) == IF n < 0 THEN -n ELSE n

\* the rational n/d in lowest terms
Ratio(n, d) == LET g == Gcd(Abs(n), d) IN Num(n \div g, d \div g)

\* a * b, a + b, a - b, a / b on floats: NaN propagates.
Mul(a, b) == IF IsNum(a) /\ IsNum(b) THEN Ratio(a.num * b.num, a.den * b.den) ELSE NaN
Add(a, b) == IF IsNum(a) /\ IsNum(b) THEN Ratio(a.num * b.den + b.num * a.den, a.den * b.den) ELSE NaN
Sub(a, b) == IF IsNum(a) /\ IsNum(b) THEN Ratio(a.num * b.den - b.num * a.den, a.den * b.den) ELSE NaN
Div(a, b) ==
    IF IsNum(a) /\ IsNum(b) /\ b.num > 0 THEN Ratio(a.num * b.den, a.den * b.num) ELSE NaN

\* a <= b, a < b, a > b, a == b: every comparison with NaN is False.
Le(a, b) == IsNum(a) /\ IsNum(b) /\ a.num * b.den <= b.num * a.den
Lt(a, b) == IsNum(a) /\ IsNum(b) /\ a.num * b.den < b.num * a.den
Gt(a, b) == Lt(b, a)
Eq(a, b) == IsNum(a) /\ IsNum(b) /\ a.num * b.den = b.num * a.den

\* max(a, b): the first argument unless the second is greater.
PyMax(a, b) == IF Gt(b, a) THEN b ELSE a

\* x or d: d when x is None, 0 or 0.0; NaN is truthy.
PyOr(x, d) == IF x.kind = "none" \/ (IsNum(x) /\ x.num = 0) THEN d ELSE x

\* int(x) of a finite float: truncation toward zero.
PyInt(a) == IF a.num >= 0 THEN a.num \div a.den ELSE -((-a.num) \div a.den)

(***************************************************************************)
(* SmartReordering                                                         *)
(***************************************************************************)
safety_factor == Num(3, 2)

NoSuggestion == [kind |-> "none"]
NotCalled == [kind |-> "notcalled"]

calculate_order_quantity_nofloor(current_stock, avg_daily_usage, lead_time, minimum_stock) ==
    IF Le(avg_daily_usage, Flt(0))
    THEN Flt(minimum_stock * 2)
    ELSE LET target_stock == Add(Mul(Mul(avg_daily_usage, lead_time), Flt(2)), Flt(minimum_stock))
         IN PyMax(Flt(0), Sub(target_stock, Flt(current_stock)))

calculate_order_quantity(current_stock, avg_daily_usage, lead_time, minimum_stock) ==
    IF Le(avg_daily_usage, Flt(0))
    THEN Flt(minimum_stock * 2)
    ELSE LET target_stock == Add(Mul(Mul(avg_daily_usage, lead_time), Flt(2)), Flt(minimum_stock))
             order_quantity == PyMax(Flt(0), Sub(target_stock, Flt(current_stock)))
             min_order == Mul(avg_daily_usage, Flt(7))
         IN PyMax(order_quantity, min_order)

item_priority_strict(current_stock, minimum_stock) ==
    IF current_stock < minimum_stock THEN "high"
    ELSE IF Le(Flt(current_stock), Mul(Flt(minimum_stock), Num(3, 2))) THEN "medium"
    ELSE "low"

item_priority(current_stock, minimum_stock) ==
    IF current_stock <= minimum_stock THEN "high"
    ELSE IF Le(Flt(current_stock), Mul(Flt(minimum_stock), Num(3, 2))) THEN "medium"
    ELSE "low"

reorder_point_nosafety(minimum_stock, safety_stock) == Flt(minimum_stock)

reorder_point(minimum_stock, safety_stock) == Add(Flt(minimum_stock), safety_stock)

reorder_needed_strict(current_stock, point) == Lt(Flt(current_stock), point)

reorder_needed(current_stock, point) == Le(Flt(current_stock), point)

analyze_item_for_reorder(it) ==
    LET current_stock == it.current_stock
        minimum_stock == it.minimum_stock
        avg_daily_usage == PyOr(it.avg_daily_usage, Flt(0))
        lead_time == PyOr(it.lead_time_days, Flt(7))
        unit_price == PyOr(it.unit_price, Flt(0))
        safety_stock == Mul(Mul(avg_daily_usage, lead_time), safety_factor)
        point == reorder_point(minimum_stock, safety_stock)
    IN IF reorder_needed(current_stock, point)
       THEN LET suggested_quantity ==
                    calculate_order_quantity(current_stock, avg_daily_usage, lead_time, minimum_stock)
                days_until_stockout ==
                    IF Gt(avg_daily_usage, Flt(0)) THEN Div(Flt(current_stock), avg_daily_usage) ELSE Inf
            IN [kind |-> "suggestion",
                id |-> it.id,
                current_stock |-> current_stock,
                minimum_stock |-> minimum_stock,
                suggested_quantity |-> PyInt(suggested_quantity),
                priority |-> item_priority(current_stock, minimum_stock),
                days_until_stockout |->
                    IF days_until_stockout # Inf THEN PyInt(days_until_stockout) ELSE 999,
                avg_daily_usage |-> avg_daily_usage,
                supplier |-> it.supplier_name,
                lead_time |-> lead_time,
                estimated_cost |-> Mul(suggested_quantity, unit_price)]
       ELSE NoSuggestion

(***************************************************************************)
(* Inputs of the single-row specification SpecItem.                        *)
(***************************************************************************)
MaxStock == 6
MaxMinimum == 4
MaxUsage == 3
MaxLead == 2

StockValues == (0 .. MaxStock) \cup {50, 999}
MinimumValues == (0 .. MaxMinimum) \cup {20, 1000}
\* a trailing average: whole or half units, absent (None), or absent in a float column (NaN)
UsageValues ==
    {Num(n, d) : n \in (0 .. MaxUsage) \cup {10}, d \in {1, 2}} \cup {None, NaN}
LeadValues == {Flt(n) : n \in (1 .. MaxLead) \cup {7}} \cup {None, NaN}
PriceValues == {Flt(0), Flt(3)}

ItemRows ==
    [id : {1}, current_stock : StockValues, minimum_stock : MinimumValues,
     avg_daily_usage : UsageValues, lead_time_days : LeadValues,
     unit_price : PriceValues, supplier_name : {"known"}]

AnalyzeItem ==
    /\ suggestion = NotCalled
    /\ suggestion' = analyze_item_for_reorder(item)
    /\ UNCHANGED <<item, order_qty>>

\* a direct call with the row's numbers
CalculateOrderQuantity ==
    /\ order_qty = NotCalled
    /\ IsNum(item.avg_daily_usage) /\ IsNum(item.lead_time_days)
    /\ order_qty' = calculate_order_quantity(item.current_stock, item.avg_daily_usage,
                                                  item.lead_time_days, item.minimum_stock)
    /\ UNCHANGED <<item, suggestion>>


(***************************************************************************)
(* DatabaseManager: the tables and the operations that write them.         *)
(***************************************************************************)
MaxDrugs == 2
MaxRows == 2

\* table suppliers after insert_default_data; inventory rows may name a
\* supplier that is not in it (the receipt import's default name)
suppliers == <<[name |-> "HealthDist Ltd", lead_time_days |-> 3]>>
DbSupplierNames == {"HealthDist Ltd", "Receipt Import"}
DbStocks == {1, 3, 10}
DbMinimums == {1, 2}
DbPrices == {Flt(3)}
SampleQuantities == {1, 2}

Ok(b) == [kind |-> "bool", value |-> b]

InventoryRow(id, current_stock, minimum_stock, unit_price, supplier_name) ==
    [id |-> id, current_stock |-> current_stock, minimum_stock |-> minimum_stock,
     unit_price |-> unit_price, supplier_name |-> supplier_name]

add_inventory_item ==
    /\ Len(inventory) < MaxDrugs
    /\ \E c \in DbStocks, m \in DbMinimums, p \in DbPrices, s \in DbSupplierNames :
          inventory' = Append(inventory, InventoryRow(Len(inventory) + 1, c, m, p, s))
    /\ ret' = Ok(TRUE)
    /\ UNCHANGED consumption_patterns

update_stock_level ==
    /\ \E item_id \in 1 .. Len(inventory), new_stock \in DbStocks :
          inventory' = [inventory EXCEPT ![item_id].current_stock = new_stock]
    /\ ret' = Ok(TRUE)
    /\ UNCHANGED consumption_patterns

\* the first five drugs each get consumption rows with random quantities
SampleLimit == 5

RECURSIVE SampleRows(_, _)
SampleRows(ids, quantity) ==
    IF ids = <<>> THEN <<>>
    ELSE <<[drug_id |-> Head(ids), quantity_consumed |-> quantity[Head(ids)]]>>
            \o SampleRows(Tail(ids), quantity)

add_sample_data ==
    LET drugs == [i \in 1 .. (IF Len(inventory) < SampleLimit THEN Len(inventory) ELSE SampleLimit)
                     |-> inventory[i].id]
    IN /\ Len(consumption_patterns) + Len(drugs) <= MaxRows
       /\ \E quantity \in [1 .. Len(drugs) -> SampleQuantities] :
             consumption_patterns' =
                 consumption_patterns \o SampleRows(drugs, [id \in 1 .. Len(drugs) |-> quantity[id]])
       /\ ret' = NotCalled
       /\ UNCHANGED inventory

\* a day passes and the oldest row leaves the trailing 30-day window
RowLeavesWindow ==
    /\ consumption_patterns # <<>>
    /\ consumption_patterns' = Tail(consumption_patterns)
    /\ ret' = NotCalled
    /\ UNCHANGED inventory

(***************************************************************************)
(* get_reorder_suggestions_data: the SQL query, then pandas' conversion.   *)
(***************************************************************************)
RECURSIVE SumQuantity(_)
SumQuantity(rows) ==
    IF rows = <<>> THEN 0 ELSE Head(rows).quantity_consumed + SumQuantity(Tail(rows))

\* AVG(cp.quantity_consumed) over the LEFT JOINed rows: NULL when there is none
SqlAvgUsage(inv, cp, drug_id) ==
    LET rows == SelectSeq(cp, LAMBDA r : r.drug_id = drug_id)
    IN IF rows = <<>> THEN None ELSE Num(SumQuantity(rows), Len(rows))

\* s.lead_time_days of the LEFT JOINed supplier: NULL when no supplier has the name
SqlLeadTime(name) ==
    LET hit == SelectSeq(suppliers, LAMBDA s : s.name = name)
    IN IF hit = <<>> THEN None ELSE Flt(Head(hit).lead_time_days)

\* pandas: a numeric column with a NULL becomes float with NaN; a column of
\* NULLs only stays an object column of None
FrameColumn(col) ==
    IF \A i \in 1 .. Len(col) : col[i] = None
    THEN col
    ELSE [i \in 1 .. Len(col) |-> IF col[i] = None THEN NaN ELSE col[i]]

get_reorder_suggestions_data(inv, cp) ==
    LET lead == FrameColumn([i \in 1 .. Len(inv) |-> SqlLeadTime(inv[i].supplier_name)])
        usage == FrameColumn([i \in 1 .. Len(inv) |-> SqlAvgUsage(inv, cp, inv[i].id)])
    IN [i \in 1 .. Len(inv) |->
          [id |-> inv[i].id, current_stock |-> inv[i].current_stock,
           minimum_stock |-> inv[i].minimum_stock, unit_price |-> inv[i].unit_price,
           supplier_name |-> inv[i].supplier_name,
           lead_time_days |-> lead[i], avg_daily_usage |-> usage[i]]]

priority_order(p) == CASE p = "high" -> 3 [] p = "medium" -> 2 [] p = "low" -> 1

RECURSIVE InsertByPriorityUnstable(_, _)
InsertByPriorityUnstable(sorted, s) ==
    IF sorted = <<>> THEN <<s>>
    ELSE IF priority_order(Head(sorted).priority) > priority_order(s.priority)
         THEN <<Head(sorted)>> \o InsertByPriorityUnstable(Tail(sorted), s)
         ELSE <<s>> \o sorted

\* list.sort(key=..., reverse=True): stable, equal keys keep their order
RECURSIVE InsertByPriority(_, _)
InsertByPriority(sorted, s) ==
    IF sorted = <<>> THEN <<s>>
    ELSE IF priority_order(Head(sorted).priority) >= priority_order(s.priority)
         THEN <<Head(sorted)>> \o InsertByPriority(Tail(sorted), s)
         ELSE <<s>> \o sorted

RECURSIVE SortByPriority(_, _)
SortByPriority(sorted, rest) ==
    IF rest = <<>> THEN sorted
    ELSE SortByPriority(InsertByPriority(sorted, Head(rest)), Tail(rest))

RECURSIVE AnalyzeRows(_)
AnalyzeRows(data) ==
    IF data = <<>> THEN <<>>
    ELSE LET s == analyze_item_for_reorder(Head(data))
         IN (IF s # NoSuggestion THEN <<s>> ELSE <<>>) \o AnalyzeRows(Tail(data))

get_reorder_suggestions(inv, cp) ==
    SortByPriority(<<>>, AnalyzeRows(get_reorder_suggestions_data(inv, cp)))

GetReorderSuggestions ==
    /\ ret' = [kind |-> "suggestions",
               list |-> get_reorder_suggestions(inventory, consumption_patterns)]
    /\ UNCHANGED <<inventory, consumption_patterns>>


(***************************************************************************)
(* Supplier Scorer                                                         *)
(***************************************************************************)
MaxSuppliers == 2

\* dict.get(key, default): a missing key is kind "none"
Get(v, default) == IF v.kind = "none" THEN default ELSE v

supplier_score_cost_not_inverted(supplier) ==
    LET reliability == Mul(Get(supplier.reliability_score, Flt(3)), Num(3, 10))
        cost_rating == Get(supplier.cost_rating, Flt(3))
        cost == Mul(cost_rating, Num(4, 10))
        quality == Mul(Get(supplier.quality_score, Flt(3)), Num(2, 10))
        delivery_time == Get(supplier.avg_delivery_time, Flt(7))
        delivery_score == Mul(Div(PyMax(Flt(0), Sub(Flt(10), delivery_time)), Flt(10)), Flt(5))
    IN Add(Add(Add(Add(Flt(0), reliability), cost), quality), Mul(delivery_score, Num(1, 10)))

supplier_score(supplier) ==
    LET reliability == Mul(Get(supplier.reliability_score, Flt(3)), Num(3, 10))
        cost_rating == Get(supplier.cost_rating, Flt(3))
        cost == Mul(Sub(Flt(6), cost_rating), Num(4, 10))
        quality == Mul(Get(supplier.quality_score, Flt(3)), Num(2, 10))
        delivery_time == Get(supplier.avg_delivery_time, Flt(7))
        delivery_score == Mul(Div(PyMax(Flt(0), Sub(Flt(10), delivery_time)), Flt(10)), Flt(5))
    IN Add(Add(Add(Add(Flt(0), reliability), cost), quality), Mul(delivery_score, Num(1, 10)))

\* scored_suppliers.sort(key=score, reverse=True): stable
RECURSIVE InsertByScore(_, _)
InsertByScore(sorted, s) ==
    IF sorted = <<>> THEN <<s>>
    ELSE IF Le(s.score, Head(sorted).score)
         THEN <<Head(sorted)>> \o InsertByScore(Tail(sorted), s)
         ELSE <<s>> \o sorted

RECURSIVE SortByScore(_, _)
SortByScore(sorted, rest) ==
    IF rest = <<>> THEN sorted
    ELSE SortByScore(InsertByScore(sorted, Head(rest)), Tail(rest))

NoSupplier == [kind |-> "none"]

optimize_supplier_selection(drug_name, required_quantity, sups) ==
    IF sups = <<>> THEN NoSupplier
    ELSE LET scored_suppliers ==
                 SortByScore(<<>>, [i \in 1 .. Len(sups) |->
                                      [supplier |-> sups[i], score |-> supplier_score(sups[i])]])
         IN Head(scored_suppliers).supplier

\* ratings on which the float score orders suppliers exactly as the rational one
ReliabilityValues == {None, Flt(5)}
CostValues == {None, Flt(1)}
QualityValues == {Flt(3), Flt(5)}
DeliveryValues == {None, Flt(12)}
OrderDrugs == {"Paracetamol 500mg", "Insulin Rapid"}
OrderQuantities == {1, 40}

SupplierProfile(n) ==
    [kind : {"supplier"}, name : {n}, reliability_score : ReliabilityValues,
     cost_rating : CostValues, quality_score : QualityValues,
     avg_delivery_time : DeliveryValues]

\* collections of 0 .. MaxSuppliers suppliers; the i-th is named i
SupplierLists ==
    UNION {{f \in [1 .. n -> UNION {SupplierProfile(i) : i \in 1 .. n}] :
                \A i \in 1 .. n : f[i].name = i} : n \in 0 .. MaxSuppliers}

Orderings(n) == {p \in [1 .. n -> 1 .. n] : \A i, j \in 1 .. n : p[i] = p[j] => i = j}

\* one call of the scorer on the collection, listed in some order; the call
\* keeps no state, and two calls are followed
OptimizeSupplierSelection ==
    /\ prev_call = NotCalled
    /\ \E p \in Orderings(Len(profiles)), drug_name \in OrderDrugs,
          required_quantity \in OrderQuantities :
          LET sups == [i \in 1 .. Len(profiles) |-> profiles[p[i]]]
          IN last_call' = [kind |-> "call", suppliers |-> sups,
                           result |-> optimize_supplier_selection(drug_name, required_quantity, sups)]
    /\ prev_call' = last_call
    /\ UNCHANGED profiles


(***************************************************************************)
(* ExpiryPredictor                                                         *)
(***************************************************************************)
\* sums of tenths as Python floats: [tenths, ulps] is the float `ulps` units
\* in the last place away from the float nearest tenths/10
Tenths(t) == [tenths |-> t, ulps |-> 0]

FloatAdd(x, t) ==
    LET k == <<x.tenths, x.ulps, t>>
    IN CASE k = <<1, 0, 2>> -> [tenths |-> 3, ulps |-> 1]
         [] k = <<2, 0, 1>> -> [tenths |-> 3, ulps |-> 1]
         [] k = <<4, 0, 2>> -> [tenths |-> 6, ulps |-> 1]
         [] k = <<6, 0, 3>> -> [tenths |-> 9, ulps |-> -1]
         [] k = <<7, 0, 1>> -> [tenths |-> 8, ulps |-> -1]
         [] k = <<7, 0, 2>> -> [tenths |-> 9, ulps |-> -1]
         [] k = <<6, 1, 1>> -> [tenths |-> 7, ulps |-> 1]
         [] k = <<6, 1, 2>> -> [tenths |-> 8, ulps |-> 0]
         [] k = <<6, 1, 3>> -> [tenths |-> 9, ulps |-> 1]
         [] k = <<3, 1, 1>> -> [tenths |-> 4, ulps |-> 0]
         [] k = <<3, 1, 2>> -> [tenths |-> 5, ulps |-> 0]
         [] k = <<3, 1, 3>> -> [tenths |-> 6, ulps |-> 1]
         [] OTHER -> [tenths |-> x.tenths + t, ulps |-> 0]

\* x >= t/10 on such floats
FloatGe(x, t) == x.tenths > t \/ (x.tenths = t /\ x.ulps >= 0)

\* min(1.0, x)
FloatMinOne(x) == IF FloatGe(x, 10) /\ x # Tenths(10) THEN Tenths(10) ELSE x

risk_threshold_medium == 6
risk_threshold_high == 8

RECURSIVE SumSeq(_)
SumSeq(q) == IF q = <<>> THEN 0 ELSE Head(q) + SumSeq(Tail(q))

RECURSIVE SumSquares(_)
SumSquares(q) == IF q = <<>> THEN 0 ELSE Head(q) * Head(q) + SumSquares(Tail(q))

\* np.mean
Mean(q) == Num(SumSeq(q), Len(q))

\* np.std(q) / np.mean(q) > c, for c = cnum/cden > 0 and a positive mean:
\* n * sum(x^2) - sum(x)^2 > c^2 * sum(x)^2
CvGreater(q, cnum, cden) ==
    (Len(q) * SumSquares(q) - SumSeq(q) * SumSeq(q)) * cden * cden
        > cnum * cnum * SumSeq(q) * SumSeq(q)

calculate_risk_score_inclusive(days_to_use, trend, daily_consumption, avg_consumption) ==
    LET days == IF Le(days_to_use, Flt(30)) THEN 4
                ELSE IF Le(days_to_use, Flt(60)) THEN 3
                ELSE IF Le(days_to_use, Flt(90)) THEN 2
                ELSE 1
        tr == IF Lt(trend, Num(-2, 10)) THEN 3
              ELSE IF Lt(trend, Flt(0)) THEN 2
              ELSE 1
        s2 == FloatAdd(FloatAdd(Tenths(0), days), tr)
        s3 == IF Gt(avg_consumption, Flt(0))
              THEN FloatAdd(s2, IF CvGreater(daily_consumption, 1, 1) THEN 3
                                ELSE IF CvGreater(daily_consumption, 1, 2) THEN 2
                                ELSE 1)
              ELSE s2
    IN FloatMinOne(s3)

calculate_risk_score_more_days_higher(days_to_use, trend, daily_consumption, avg_consumption) ==
    LET days == IF Lt(days_to_use, Flt(30)) THEN 1
                ELSE IF Lt(days_to_use, Flt(60)) THEN 2
                ELSE IF Lt(days_to_use, Flt(90)) THEN 3
                ELSE 4
        tr == IF Lt(trend, Num(-2, 10)) THEN 3
              ELSE IF Lt(trend, Flt(0)) THEN 2
              ELSE 1
        s2 == FloatAdd(FloatAdd(Tenths(0), days), tr)
        s3 == IF Gt(avg_consumption, Flt(0))
              THEN FloatAdd(s2, IF CvGreater(daily_consumption, 1, 1) THEN 3
                                ELSE IF CvGreater(daily_consumption, 1, 2) THEN 2
                                ELSE 1)
              ELSE s2
    IN FloatMinOne(s3)

calculate_risk_score(days_to_use, trend, daily_consumption, avg_consumption) ==
    LET days == IF Lt(days_to_use, Flt(30)) THEN 4
                ELSE IF Lt(days_to_use, Flt(60)) THEN 3
                ELSE IF Lt(days_to_use, Flt(90)) THEN 2
                ELSE 1
        tr == IF Lt(trend, Num(-2, 10)) THEN 3
              ELSE IF Lt(trend, Flt(0)) THEN 2
              ELSE 1
        s2 == FloatAdd(FloatAdd(Tenths(0), days), tr)
        s3 == IF Gt(avg_consumption, Flt(0))
              THEN FloatAdd(s2, IF CvGreater(daily_consumption, 1, 1) THEN 3
                                ELSE IF CvGreater(daily_consumption, 1, 2) THEN 2
                                ELSE 1)
              ELSE s2
    IN FloatMinOne(s3)

predict_wastage_trend_swapped(current_stock, avg_consumption, trend, days_to_use) ==
    LET wastage_rate == IF days_to_use = Inf \/ Gt(days_to_use, Flt(365)) THEN Num(15, 100)
                        ELSE IF Gt(days_to_use, Flt(180)) THEN Num(10, 100)
                        ELSE IF Gt(days_to_use, Flt(90)) THEN Num(5, 100)
                        ELSE Num(2, 100)
        adjusted == IF Gt(trend, Num(1, 10)) THEN Mul(wastage_rate, Num(15, 10))
                    ELSE IF Lt(trend, Num(-1, 10)) THEN Mul(wastage_rate, Num(7, 10))
                    ELSE wastage_rate
    IN PyMax(Flt(0), Mul(Flt(current_stock), adjusted))

predict_wastage(current_stock, avg_consumption, trend, days_to_use) ==
    LET wastage_rate == IF days_to_use = Inf \/ Gt(days_to_use, Flt(365)) THEN Num(15, 100)
                        ELSE IF Gt(days_to_use, Flt(180)) THEN Num(10, 100)
                        ELSE IF Gt(days_to_use, Flt(90)) THEN Num(5, 100)
                        ELSE Num(2, 100)
        adjusted == IF Lt(trend, Num(-1, 10)) THEN Mul(wastage_rate, Num(15, 10))
                    ELSE IF Gt(trend, Num(1, 10)) THEN Mul(wastage_rate, Num(7, 10))
                    ELSE wastage_rate
    IN PyMax(Flt(0), Mul(Flt(current_stock), adjusted))

\* get_current_stock: the inventory row's stock, 0 when the drug has no row
get_current_stock(h) == IF h.in_inventory THEN h.current_stock ELSE 0

\* get_historical_consumption: one total per date; no rows without an inventory row
get_historical_consumption(h) == IF h.in_inventory THEN h.consumption ELSE <<>>

NoAssessment == [kind |-> "none"]

assess_expiry_risk_recent_base(daily_consumption, current_stock) ==
            LET n == Len(daily_consumption)
                avg_consumption == Mean(daily_consumption)
                recent_avg == Mean(SubSeq(daily_consumption, n - 6, n))
                older_avg == Mean(SubSeq(daily_consumption, 1, n - 7))
                trend == IF n > 7
                         THEN (IF Gt(older_avg, Flt(0))
                               THEN Div(Sub(recent_avg, older_avg), recent_avg)
                               ELSE Flt(0))
                         ELSE Flt(0)
                days_to_use == IF Gt(avg_consumption, Flt(0))
                               THEN Div(Flt(current_stock), avg_consumption)
                               ELSE Inf
                risk_score ==
                    calculate_risk_score(days_to_use, trend, daily_consumption, avg_consumption)
            IN [kind |-> "assessment",
                risk_score |-> risk_score,
                risk_level |-> IF FloatGe(risk_score, risk_threshold_high) THEN "high"
                               ELSE IF FloatGe(risk_score, risk_threshold_medium) THEN "medium"
                               ELSE "low",
                days_to_use |-> days_to_use,
                trend |-> trend,
                predicted_wastage |->
                    predict_wastage(current_stock, avg_consumption, trend, days_to_use)]

\* predict_expiry_risk past its guard
assess_expiry_risk(daily_consumption, current_stock) ==
            LET n == Len(daily_consumption)
                avg_consumption == Mean(daily_consumption)
                recent_avg == Mean(SubSeq(daily_consumption, n - 6, n))
                older_avg == Mean(SubSeq(daily_consumption, 1, n - 7))
                trend == IF n > 7
                         THEN (IF Gt(older_avg, Flt(0))
                               THEN Div(Sub(recent_avg, older_avg), older_avg)
                               ELSE Flt(0))
                         ELSE Flt(0)
                days_to_use == IF Gt(avg_consumption, Flt(0))
                               THEN Div(Flt(current_stock), avg_consumption)
                               ELSE Inf
                risk_score ==
                    calculate_risk_score(days_to_use, trend, daily_consumption, avg_consumption)
            IN [kind |-> "assessment",
                risk_score |-> risk_score,
                risk_level |-> IF FloatGe(risk_score, risk_threshold_high) THEN "high"
                               ELSE IF FloatGe(risk_score, risk_threshold_medium) THEN "medium"
                               ELSE "low",
                days_to_use |-> days_to_use,
                trend |-> trend,
                predicted_wastage |->
                    predict_wastage(current_stock, avg_consumption, trend, days_to_use)]

predict_expiry_risk(h) ==
    LET daily_consumption == get_historical_consumption(h)
        current_stock == get_current_stock(h)
    IN IF daily_consumption = <<>> \/ current_stock = 0
       THEN NoAssessment
       ELSE assess_expiry_risk(daily_consumption, current_stock)

MaxOlderDays == 3
MaxRecentDays == 7
MaxExpiryStock == 3

ConsumptionValues == {0, 5, 10}

Flat(v, n) == [i \in 1 .. n |-> v]

\* histories: some older days at one level, then some recent days at another
HistorySeries ==
    {Flat(a, n1) \o Flat(b, n2) :
        a \in ConsumptionValues, b \in ConsumptionValues,
        n1 \in 0 .. MaxOlderDays, n2 \in 0 .. MaxRecentDays}

\* update_stock_level and add_inventory_item store the stock they are given
Histories ==
    [in_inventory : BOOLEAN, consumption : HistorySeries,
     current_stock : (0 .. MaxExpiryStock) \cup {200, -1}]

PredictExpiryRisk ==
    /\ assessment = NotCalled
    /\ assessment' = predict_expiry_risk(history)
    /\ UNCHANGED history


(***************************************************************************)
(* AIForecasting.  A consumption series is the sequence of daily totals in *)
(* date order, one per consecutive day.  The estimators of scikit-learn    *)
(* are represented by what they retain of the data they were fitted on:    *)
(* the scaler by the mean of a feature column, a regressor by the range of *)
(* its training targets.  A regressor fitted on a constant target predicts *)
(* that constant; a forest predicts within the range of its targets; a     *)
(* linear model may predict any value.                                     *)
(***************************************************************************)
MaxPoints == 21
MaxHorizon == 2

FittedTypes == {"Linear Regression", "Random Forest"}
ModelTypes == FittedTypes \cup {"ARIMA"}

\* data['consumption'].shift(lag) and .rolling(window).mean() at row i
Lag(series, i, lag) == IF i > lag THEN Flt(series[i - lag]) ELSE NaN
Rolling_after_window(series, i, window) ==
    IF i > window THEN Mean(SubSeq(series, i - window + 1, i)) ELSE NaN

Rolling(series, i, window) ==
    IF i >= window THEN Mean(SubSeq(series, i - window + 1, i)) ELSE NaN

FeatureRow(series, i) ==
    [trend |-> i - 1,
     consumption |-> series[i],
     consumption_lag_1 |-> Lag(series, i, 1),
     consumption_lag_3 |-> Lag(series, i, 3),
     consumption_lag_7 |-> Lag(series, i, 7),
     consumption_avg_3 |-> Rolling(series, i, 3),
     consumption_avg_7 |-> Rolling(series, i, 7),
     consumption_avg_14 |-> Rolling(series, i, 14)]

\* data.dropna(): a row with a NaN in any column goes
HasNaN(row) ==
    \/ row.consumption_lag_1 = NaN \/ row.consumption_lag_3 = NaN
    \/ row.consumption_lag_7 = NaN \/ row.consumption_avg_3 = NaN
    \/ row.consumption_avg_7 = NaN \/ row.consumption_avg_14 = NaN

prepare_features(series) ==
    SelectSeq([i \in 1 .. Len(series) |-> FeatureRow(series, i)], LAMBDA row : ~HasNaN(row))

RECURSIVE SeqMin(_)
SeqMin(q) ==
    IF Len(q) = 1 THEN Head(q)
    ELSE LET m == SeqMin(Tail(q)) IN IF Head(q) < m THEN Head(q) ELSE m

RECURSIVE SeqMax(_)
SeqMax(q) ==
    IF Len(q) = 1 THEN Head(q)
    ELSE LET m == SeqMax(Tail(q)) IN IF Head(q) > m THEN Head(q) ELSE m

Unfitted == [kind |-> "unfitted"]

\* self.scaler.fit_transform(X_train): the scaler keeps the column means
scaler_fit(X_train) ==
    [kind |-> "fitted",
     mean_ |-> Ratio(SumSeq([k \in 1 .. Len(X_train) |-> X_train[k].consumption_lag_1.num]),
                     Len(X_train))]

\* model.fit(X_train_scaled, y_train)
model_fit(model_type, y_train) ==
    [kind |-> "fitted", type |-> model_type, lo |-> SeqMin(y_train), hi |-> SeqMax(y_train)]

PredictsAnyValue(model, v) == TRUE

\* v can be a value of model.predict(...)
Predicts(model, v) ==
    IF model.lo = model.hi THEN v = Flt(model.lo)
    ELSE model.type = "Random Forest" => (Le(Flt(model.lo), v) /\ Le(v, Flt(model.hi)))

PredictionValues == {Flt(-5), Flt(0), Flt(5), Flt(10), Flt(20)}

Predictions(model) == {v \in PredictionValues : Predicts(model, v)}

\* _arima_forecast: moving average with trend
arima_forecast(y, forecast_days) ==
    LET n == Len(y)
        window == IF 7 < n THEN 7 ELSE n
        recent_avg == Mean(SubSeq(y, n - window + 1, n))
        recent_trend == IF n > 7
                        THEN Div(Sub(Mean(SubSeq(y, n - 6, n)), Mean(SubSeq(y, 1, 7))), Flt(n))
                        ELSE Flt(0)
    IN [i \in 1 .. forecast_days |->
           PyMax(Flt(0), Add(recent_avg, Mul(recent_trend, Flt(i - 1))))]

generate_future_forecast_unfloored(pred, forecast_days) ==
    [i \in 1 .. forecast_days |-> pred[i]]

\* _generate_future_forecast: each prediction floored at 0
generate_future_forecast(pred, forecast_days) ==
    [i \in 1 .. forecast_days |-> PyMax(Flt(0), pred[i])]

\* 1 - mean_absolute_error(y_test, y_pred) / np.mean(y_test), then
\* max(0, min(1, accuracy)): 0/0 is nan, and min(1, nan) is 1; x/0 is inf,
\* and 1 - inf ends at 0
validation_accuracy(y_test, y_pred) ==
    LET n == Len(y_test)
        errors == [k \in 1 .. n |-> LET e == Sub(Flt(y_test[k]), y_pred[k])
                                   IN IF e.num < 0 THEN Sub(Flt(0), e) ELSE e]
        RECURSIVE Total(_)
        Total(k) == IF k = 0 THEN Flt(0) ELSE Add(Total(k - 1), errors[k])
        mae == Div(Total(n), Flt(n))
        mean == SumSeq(y_test)
    IN IF mean = 0
       THEN (IF mae.num = 0 THEN Flt(1) ELSE Flt(0))
       ELSE LET accuracy == Sub(Flt(1), Div(mae, Num(mean, n)))
            IN PyMax(Flt(0), IF Lt(accuracy, Flt(1)) THEN accuracy ELSE Flt(1))

\* np.std(y) squared
Variance(y) == Ratio(Len(y) * SumSquares(y) - SumSeq(y) * SumSeq(y), Len(y) * Len(y))

\* base + sign * 1.96 * sqrt(var), kept in that form
Band(base, sign, var) == [kind |-> "band", base |-> base, sign |-> sign, var |-> var]

\* base - 1.96 * sqrt(var) > 0
BandBelowPositive(base, var) ==
    /\ base.num > 0
    /\ Gt(Mul(base, base), Mul(Num(2401, 625), var))

ForecastError(message) == [kind |-> "error", error |-> message]

\* generate_forecast from the model step to the return
forecast_from(y, y_test, forecast_days, model_type, y_pred, future_pred) ==
    LET forecast == IF model_type = "ARIMA"
                    THEN arima_forecast(y, forecast_days)
                    ELSE generate_future_forecast(future_pred, forecast_days)
        accuracy == IF model_type = "ARIMA"
                    THEN Num(3, 4)
                    ELSE validation_accuracy(y_test, y_pred)
        var == Variance(y)
    IN [kind |-> "forecast",
        forecast |-> forecast,
        confidence_upper |-> [i \in 1 .. forecast_days |-> Band(forecast[i], 1, var)],
        confidence_lower |->
            [i \in 1 .. forecast_days |->
                IF BandBelowPositive(forecast[i], var)
                THEN Band(forecast[i], -1, var)
                ELSE Flt(0)],
        accuracy |-> accuracy]

generate_forecast_eight_rows(historical_data, forecast_days, model_type, y_pred, future_pred) ==
    IF Len(historical_data) < 14 \/ Len(historical_data) - 13 < 8
    THEN ForecastError("Insufficient data")
    ELSE [kind |-> "forecast", forecast |-> future_pred, confidence_upper |-> future_pred,
          confidence_lower |-> future_pred, accuracy |-> Flt(0)]

generate_forecast(historical_data, forecast_days, model_type, y_pred, future_pred) ==
    IF Len(historical_data) < 14
    THEN ForecastError("Insufficient data for forecasting")
    ELSE LET data == prepare_features(historical_data)
         IN IF Len(data) < 7
            THEN ForecastError("Insufficient data after feature engineering")
            ELSE LET y == [k \in 1 .. Len(data) |-> data[k].consumption]
                     split_point == (Len(data) * 8) \div 10
                     y_test == SubSeq(y, split_point + 1, Len(y))
                 IN forecast_from(y, y_test, forecast_days, model_type, y_pred, future_pred)

\* the rows, targets and split of a series that passes both length checks
TrainingData(historical_data) ==
    LET data == prepare_features(historical_data)
        split_point == (Len(data) * 8) \div 10
    IN [X_train |-> SubSeq(data, 1, split_point),
        y |-> [k \in 1 .. Len(data) |-> data[k].consumption],
        y_train |-> [k \in 1 .. split_point |-> data[k].consumption],
        y_test |-> [k \in 1 .. Len(data) - split_point |-> data[split_point + k].consumption],
        test_len |-> Len(data) - split_point]

Forecastable(historical_data) ==
    Len(historical_data) >= 14 /\ Len(prepare_features(historical_data)) >= 7

LevelValues == {0, 5, 10}

\* series of every length up to MaxPoints: flat, or changing level for the last four days
ForecastSeries ==
    {Flat(a, n) : a \in LevelValues, n \in 0 .. MaxPoints}
        \cup {Flat(a, n - 4) \o Flat(b, 4) : a \in LevelValues, b \in LevelValues,
                                              n \in 5 .. MaxPoints}

ForecastRequests ==
    [historical_data : ForecastSeries, forecast_days : 0 .. MaxHorizon, model_type : ModelTypes]

AllZero(series) == \A i \in 1 .. Len(series) : series[i] = 0

\* a drug nothing was ever consumed of: its forecast requests and its histories
ZeroRequests ==
    [historical_data : {Flat(0, n) : n \in 0 .. MaxPoints},
     forecast_days : 0 .. MaxHorizon, model_type : ModelTypes]
ZeroHistories == {h \in Histories : AllZero(h.consumption)}

\* the most recent days of a series, as far back as a history reaches
RecentDays(series) ==
    LET n == Len(series)
        window == MaxOlderDays + MaxRecentDays
    IN IF n <= window THEN series ELSE SubSeq(series, n - window + 1, n)

\* one call of generate_forecast on a fresh AIForecasting instance
GenerateForecast ==
    /\ forecast_result = NotCalled
    /\ IF Forecastable(request.historical_data)
       THEN LET training == TrainingData(request.historical_data)
                fitted == model_fit(request.model_type, training.y_train)
            IN /\ scaler' = scaler_fit(training.X_train)
               /\ IF request.model_type \in FittedTypes
                  THEN /\ models' = [models EXCEPT ![request.model_type] = fitted]
                       /\ \E y_pred \in [1 .. training.test_len -> Predictions(fitted)],
                             future_pred \in [1 .. request.forecast_days -> Predictions(fitted)] :
                             forecast_result' =
                                    generate_forecast(request.historical_data,
                                                      request.forecast_days,
                                                      request.model_type, y_pred, future_pred)
                  ELSE /\ models' = models
                       /\ forecast_result' =
                              generate_forecast(request.historical_data, request.forecast_days,
                                                request.model_type, <<>>, <<>>)
       ELSE /\ forecast_result' =
                   generate_forecast(request.historical_data, request.forecast_days,
                                     request.model_type, <<>>, <<>>)
            /\ UNCHANGED <<scaler, models>>
    /\ UNCHANGED <<request, pc, calls, results>>


(***************************************************************************)
(* Overlapping generate_forecast calls on the one AIForecasting instance   *)
(* that init_ai_models caches for every session.  Each call is a thread of  *)
(* its own; the calls into scikit-learn are its steps.  X_train, y_train,  *)
(* y_pred and the forecast are locals of a call; self.scaler and the       *)
(* estimators in self.models are the instance's.                           *)
(***************************************************************************)
CallIds == {1, 2}

\* a series too short to forecast, flat series, and one that changes level
ConcurrentSeries ==
    {Flat(5, 14)}
        \cup {Flat(a, MaxPoints) : a \in LevelValues}
        \cup {Flat(10, MaxPoints - 4) \o Flat(5, 4)}

ConcurrentRequests ==
    [historical_data : ConcurrentSeries, forecast_days : {1}, model_type : FittedTypes,
     y_pred : {<<>>}]

\* the length checks and prepare_features, up to the split
Start(c) ==
    /\ pc[c] = "start"
    /\ IF Forecastable(calls[c].historical_data)
       THEN pc' = [pc EXCEPT ![c] = "scaler_fit"] /\ UNCHANGED results
       ELSE /\ pc' = [pc EXCEPT ![c] = "done"]
            /\ results' = [results EXCEPT ![c] =
                   generate_forecast(calls[c].historical_data, calls[c].forecast_days,
                                     calls[c].model_type, <<>>, <<>>)]
    /\ UNCHANGED <<request, forecast_result, scaler, models, calls>>

\* self.scaler.fit_transform(X_train)
ScalerFit(c) ==
    /\ pc[c] = "scaler_fit"
    /\ scaler' = scaler_fit(TrainingData(calls[c].historical_data).X_train)
    /\ pc' = [pc EXCEPT ![c] = "model_fit"]
    /\ UNCHANGED <<request, forecast_result, models, calls, results>>

\* model = self.models[model_type]; model.fit(X_train_scaled, y_train)
ModelFit(c) ==
    /\ pc[c] = "model_fit"
    /\ models' = [models EXCEPT ![calls[c].model_type] =
           model_fit(calls[c].model_type, TrainingData(calls[c].historical_data).y_train)]
    /\ pc' = [pc EXCEPT ![c] = "validation"]
    /\ UNCHANGED <<request, forecast_result, scaler, calls, results>>

\* y_pred = model.predict(X_test_scaled), with the estimator as it is now
Validation(c) ==
    /\ pc[c] = "validation"
    /\ \E y_pred \in [1 .. TrainingData(calls[c].historical_data).test_len ->
                         Predictions(models[calls[c].model_type])] :
           calls' = [calls EXCEPT ![c].y_pred = y_pred]
    /\ pc' = [pc EXCEPT ![c] = "future_forecast"]
    /\ UNCHANGED <<request, forecast_result, scaler, models, results>>

\* _generate_future_forecast with the estimator as it is now, then the return
FutureForecast(c) ==
    /\ pc[c] = "future_forecast"
    /\ \E future_pred \in [1 .. calls[c].forecast_days ->
                              Predictions(models[calls[c].model_type])] :
           results' = [results EXCEPT ![c] =
               generate_forecast(calls[c].historical_data, calls[c].forecast_days,
                                 calls[c].model_type, calls[c].y_pred, future_pred)]
    /\ pc' = [pc EXCEPT ![c] = "done"]
    /\ UNCHANGED <<request, forecast_result, scaler, models, calls>>

\* every result generate_forecast can return for these arguments on an
\* instance no other call touches
AloneResults(r) ==
    IF Forecastable(r.historical_data)
    THEN LET training == TrainingData(r.historical_data)
             fitted == model_fit(r.model_type, training.y_train)
         IN {forecast_from(training.y, training.y_test, r.forecast_days, r.model_type,
                           y_pred, future_pred) :
                y_pred \in [1 .. training.test_len -> Predictions(fitted)],
                future_pred \in [1 .. r.forecast_days -> Predictions(fitted)]}
    ELSE {generate_forecast(r.historical_data, r.forecast_days, r.model_type, <<>>, <<>>)}


(***************************************************************************)
(* AIForecasting.generate_recommendations.  A message is its priority and  *)
(* the template of its text; the numbers the f-strings print into the text *)
(* are left out.                                                           *)
(***************************************************************************)
MaxLaterDays == 2

Recommendation(priority, message) == [priority |-> priority, message |-> message]

\* np.mean of a list of floats: nan for the empty list
MeanOf(values) ==
    LET RECURSIVE Total(_)
        Total(k) == IF k = 0 THEN Flt(0) ELSE Add(Total(k - 1), values[k])
    IN IF Len(values) = 0 THEN NaN ELSE Div(Total(Len(values)), Flt(Len(values)))

\* sum(forecast)
SumOf(values) ==
    LET RECURSIVE Total(_)
        Total(k) == IF k = 0 THEN Flt(0) ELSE Add(Total(k - 1), values[k])
    IN Total(Len(values))

\* current_stock / avg_daily_demand if avg_daily_demand > 0 else float('inf')
days_of_stock(forecast, current_stock) ==
    LET avg_daily_demand == MeanOf(forecast)
    IN IF Gt(avg_daily_demand, Flt(0))
       THEN Ratio(current_stock * avg_daily_demand.den, avg_daily_demand.num)
       ELSE Inf

stock_messages_inclusive(days) ==
    IF Le(days, Flt(7)) THEN <<Recommendation("high", "Critical: days of stock remaining")>>
    ELSE IF Le(days, Flt(14))
         THEN <<Recommendation("medium", "Warning: days of stock remaining")>>
         ELSE <<>>

\* the stock analysis
stock_messages(days) ==
    IF Lt(days, Flt(7)) THEN <<Recommendation("high", "Critical: days of stock remaining")>>
    ELSE IF Lt(days, Flt(14))
         THEN <<Recommendation("medium", "Warning: days of stock remaining")>>
         ELSE <<>>

\* the demand pattern analysis
demand_messages(forecast) ==
    IF Len(forecast) > 7
    THEN LET recent_demand == MeanOf(SubSeq(forecast, 1, 7))
             future_demand == MeanOf(SubSeq(forecast, 8, Len(forecast)))
         IN IF Gt(future_demand, Mul(recent_demand, Num(6, 5)))
            THEN <<Recommendation("medium", "Demand expected to increase")>>
            ELSE IF Lt(future_demand, Mul(recent_demand, Num(4, 5)))
                 THEN <<Recommendation("low", "Demand expected to decrease")>>
                 ELSE <<>>
    ELSE <<>>

\* the reorder recommendation
reorder_messages(forecast, current_stock) ==
    LET safety_stock == Mul(MeanOf(forecast), Flt(7))
        reorder_quantity == Sub(Add(SumOf(forecast), safety_stock), Flt(current_stock))
    IN IF Gt(reorder_quantity, Flt(0))
       THEN <<Recommendation("medium", "Recommend ordering units")>>
       ELSE <<>>

generate_recommendations(forecast_result_, current_stock) ==
    IF "forecast" \notin DOMAIN forecast_result_
    THEN <<Recommendation("high", "Unable to generate forecast due to insufficient data")>>
    ELSE stock_messages(days_of_stock(forecast_result_.forecast, current_stock))
             \o demand_messages(forecast_result_.forecast)
             \o reorder_messages(forecast_result_.forecast, current_stock)

DemandValues == {0, 1, 5, 6, 10}

\* forecasts of up to 7 + MaxLaterDays days: one level for the first days, one for the rest
ForecastShapes ==
    {[i \in 1 .. k + m |-> Flt(IF i <= k THEN a ELSE b)] :
        a \in DemandValues, b \in DemandValues, k \in 0 .. 7, m \in 0 .. MaxLaterDays}

\* what generate_forecast returns: a failure, or a result around a forecast
ForecastResults ==
    {ForecastError("Insufficient data for forecasting"),
     ForecastError("Insufficient data after feature engineering")}
        \cup {[kind |-> "forecast", forecast |-> f,
               confidence_upper |-> [i \in 1 .. Len(f) |-> Band(f[i], 1, Flt(0))],
               confidence_lower |-> [i \in 1 .. Len(f) |-> Band(f[i], -1, Flt(0))],
               accuracy |-> Num(3, 4)] : f \in ForecastShapes}

\* db.get_current_stock: the stored stock, 0 for a drug without a row
StockLevels == {-1, 0, 6, 7, 13, 14, 35, 70, 200}

RecommendationCalls == [forecast_result : ForecastResults, current_stock : StockLevels]

GenerateRecommendations ==
    /\ recommendations = NotCalled
    /\ recommendations' =
           [kind |-> "recommendations",
            list |-> generate_recommendations(rec_call.forecast_result, rec_call.current_stock)]
    /\ UNCHANGED rec_call


(***************************************************************************)
(* AIForecasting._generate_future_forecast, one loop iteration per step.   *)
(* `future.fed` records the lag features of every row handed to            *)
(* model.predict.                                                          *)
(***************************************************************************)
MaxFutureDays == 8

\* series whose last two days differ from the days before
FutureSeries ==
    {Flat(a, MaxPoints - 2) \o <<b, c>> : a \in LevelValues, b \in LevelValues, c \in LevelValues}

\* the call generate_forecast makes after fitting the model on the series
FutureCall(series, model_type, forecast_days) ==
    [model |-> model_fit(model_type, TrainingData(series).y_train),
     last_consumption |-> series[Len(series)],
     forecast_days |-> forecast_days,
     i |-> 0,
     forecast |-> <<>>,
     fed |-> <<>>]

\* data.iloc[-1].copy()
LastRowOf(series) == LET data == prepare_features(series) IN data[Len(data)]

\* the lag updates at the end of iteration i, forecast holding i + 1 values
UpdateLags(row, i, forecast, last_consumption) ==
    LET n == Len(forecast)
        lag_1 == IF i = 0 THEN Flt(last_consumption) ELSE forecast[n]
        lag_3 == IF i >= 2 THEN forecast[n - 2] ELSE row.consumption_lag_3
        lag_7 == IF i >= 6 THEN forecast[n - 6] ELSE row.consumption_lag_7
    IN [row EXCEPT !.consumption_lag_1 = lag_1,
                   !.consumption_lag_3 = lag_3,
                   !.consumption_lag_7 = lag_7]

\* one iteration of `for i in range(forecast_days)`
FutureStep ==
    /\ future.i < future.forecast_days
    /\ \E prediction \in Predictions(future.model) :
           LET row == [last_row EXCEPT !.trend = @ + 1]
               pred == PyMax(Flt(0), prediction)
               forecast == Append(future.forecast, pred)
           IN /\ future' = [future EXCEPT !.i = @ + 1,
                                          !.forecast = forecast,
                                          !.fed = Append(@, row)]
              /\ last_row' = UpdateLags(row, future.i, forecast, future.last_consumption)


(***************************************************************************)
(* AIForecasting.prepare_features on a frame: rows of date and consumption *)
(* in any order, one row per date.                                         *)
(***************************************************************************)
\* data.sort_values('date'): insertion of each row after the earlier dates
RECURSIVE InsertByDate(_, _)
InsertByDate(row, sorted) ==
    IF sorted = <<>> THEN <<row>>
    ELSE IF row.date < Head(sorted).date THEN <<row>> \o sorted
    ELSE <<Head(sorted)>> \o InsertByDate(row, Tail(sorted))

RECURSIVE sort_values(_)
sort_values(data) ==
    IF data = <<>> THEN <<>>
    ELSE InsertByDate(data[Len(data)], sort_values(SubSeq(data, 1, Len(data) - 1)))

\* prepare_features with the date column: sort, derive, drop
prepare_features_of_frame(data) ==
    LET sorted == sort_values(data)
        rows == prepare_features([i \in 1 .. Len(sorted) |-> sorted[i].consumption])
    IN [k \in 1 .. Len(rows) |->
           [date |-> sorted[rows[k].trend + 1].date,
            trend |-> rows[k].trend,
            consumption |-> rows[k].consumption,
            consumption_lag_1 |-> rows[k].consumption_lag_1,
            consumption_lag_3 |-> rows[k].consumption_lag_3,
            consumption_lag_7 |-> rows[k].consumption_lag_7,
            consumption_avg_3 |-> rows[k].consumption_avg_3,
            consumption_avg_7 |-> rows[k].consumption_avg_7,
            consumption_avg_14 |-> rows[k].consumption_avg_14]]

\* the consumption of a date: a level, plus a part that changes with the date
ConsumptionOn(level, step, date) == level + (date % 3) * step

\* the position of the n dates in a frame
DateAt(order, n, i) ==
    IF order = "descending" THEN n + 1 - i
    ELSE IF order = "last first" THEN (IF i = 1 THEN n ELSE i - 1)
    ELSE i

Frames ==
    {[i \in 1 .. n |-> [date |-> DateAt(order, n, i),
                        consumption |-> ConsumptionOn(level, step, DateAt(order, n, i))]] :
        n \in 0 .. MaxPoints,
        order \in {"ascending", "descending", "last first"},
        level \in LevelValues, step \in {0, 5}}

PrepareFeatures ==
    /\ features = NotCalled
    /\ features' = [kind |-> "features", rows |-> prepare_features_of_frame(frame)]
    /\ UNCHANGED frame


(***************************************************************************)
(* SmartReordering.analyze_suppliers over DatabaseManager's                *)
(* get_supplier_metrics.  database.py defines get_supplier_metrics twice;  *)
(* the class keeps the later definition, which is the one modelled.  The   *)
(* weighted sums are kept exact.                                           *)
(***************************************************************************)
MaxSupplierRows == 2

SupplierRow(id, reliability_score, cost_rating, quality_score) ==
    [id |-> id, name |-> id, lead_time_days |-> 7,
     reliability_score |-> reliability_score, cost_rating |-> cost_rating,
     quality_score |-> quality_score]

\* scores on the 1 to 5 scale
ScoreValues == {Flt(3), Flt(5)}
CostRatings == {Flt(1), Flt(3), Flt(5)}

SupplierTables ==
    UNION {[1 .. n -> [reliability_score : ScoreValues, cost_rating : CostRatings,
                       quality_score : ScoreValues]] : n \in 0 .. MaxSupplierRows}

\* COUNT(po.id) of the LEFT JOINed purchase orders
TotalOrders(orders, supplier_id) ==
    Len(SelectSeq(orders, LAMBDA po : po.supplier_id = supplier_id))

\* the query of the later definition: cost_rating is returned as avg_unit_cost
get_supplier_metrics(rows, orders) ==
    [i \in 1 .. Len(rows) |->
        [supplier_name |-> rows[i].name,
         avg_delivery_time |-> rows[i].lead_time_days,
         reliability_score |-> rows[i].reliability_score,
         avg_unit_cost |-> rows[i].cost_rating,
         quality_score |-> rows[i].quality_score,
         total_orders |-> TotalOrders(orders, rows[i].id)]]

\* supplier.get(key, default) on a record of the frame
DictGet(row, key, default) == IF key \in DOMAIN row THEN row[key] ELSE default

composite_score(supplier) ==
    LET reliability_weight == Num(3, 10)
        cost_weight == Num(3, 10)
        quality_weight == Num(2, 5)
        norm_reliability == Div(DictGet(supplier, "reliability_score", Flt(3)), Flt(5))
        norm_cost == Div(Sub(Flt(6), DictGet(supplier, "cost_rating", Flt(3))), Flt(5))
        norm_quality == Div(DictGet(supplier, "quality_score", Flt(3)), Flt(5))
    IN Add(Add(Mul(norm_reliability, reliability_weight), Mul(norm_cost, cost_weight)),
           Mul(norm_quality, quality_weight))

analyze_suppliers(rows, orders) ==
    LET supplier_metrics == get_supplier_metrics(rows, orders)
    IN [i \in 1 .. Len(supplier_metrics) |->
           [supplier_name |-> supplier_metrics[i].supplier_name,
            avg_delivery_time |-> supplier_metrics[i].avg_delivery_time,
            reliability_score |-> supplier_metrics[i].reliability_score,
            avg_unit_cost |-> supplier_metrics[i].avg_unit_cost,
            quality_score |-> supplier_metrics[i].quality_score,
            total_orders |-> supplier_metrics[i].total_orders,
            composite_score |-> composite_score(supplier_metrics[i])]]

AnalyzeSuppliers ==
    /\ supplier_analysis = NotCalled
    /\ supplier_analysis' =
           [kind |-> "analysis", list |-> analyze_suppliers(supplier_rows, purchase_orders)]
    /\ UNCHANGED <<supplier_rows, purchase_orders, alerts, success>>


(***************************************************************************)
(* The buttons of smart_reordering_page: each run of the page first calls  *)
(* get_reorder_suggestions and then, for a pressed button, one database    *)
(* call on a suggestion of that list.                                      *)
(***************************************************************************)
MaxOrders == 2
MaxAlerts == 2

\* order_number is "PO" and the time to the second; the column is UNIQUE
OrderNumbers == 1 .. MaxOrders

\* SELECT id FROM suppliers WHERE name = ?
SupplierIdOf(name) ==
    IF \E i \in 1 .. Len(suppliers) : suppliers[i].name = name
    THEN CHOOSE i \in 1 .. Len(suppliers) : suppliers[i].name = name
    ELSE 0

\* SELECT id FROM inventory WHERE drug_name = ?
DrugIdOf(inv, drug) ==
    IF \E i \in 1 .. Len(inv) : inv[i].id = drug
    THEN CHOOSE i \in 1 .. Len(inv) : inv[i].id = drug
    ELSE 0

PurchaseOrder(order_number, s) ==
    [order_number |-> order_number, supplier_id |-> SupplierIdOf(s.supplier),
     drug_id |-> DrugIdOf(inventory, s.id), quantity |-> s.suggested_quantity,
     unit_price |-> DictGet(s, "unit_price", Flt(0)), total_amount |-> s.estimated_cost,
     status |-> "pending"]

Alert(alert_type, message, drug_id) ==
    [alert_type |-> alert_type, severity |-> "info", message |-> message,
     drug_id |-> drug_id, is_active |-> TRUE]

Shown == IF ret.kind = "suggestions" THEN ret.list ELSE <<>>

\* the script runs again on a click: the suggestions are computed anew and
\* the button with the pressed key, if it is still rendered, returns True
Rerun == get_reorder_suggestions(inventory, consumption_patterns)
Pressed(id) == SelectSeq(Rerun, LAMBDA s : s.id = id)

\* an approval that also books the ordered units into stock
create_purchase_order_receiving ==
    /\ \E i \in 1 .. Len(Shown), order_number \in OrderNumbers :
          LET hit == Pressed(Shown[i].id)
              taken == \E k \in 1 .. Len(purchase_orders) :
                          purchase_orders[k].order_number = order_number
          IN /\ hit # <<>>
             /\ IF DrugIdOf(inventory, Head(hit).id) # 0 /\ ~taken
                THEN /\ purchase_orders' =
                            Append(purchase_orders, PurchaseOrder(order_number, Head(hit)))
                     /\ inventory' =
                            [inventory EXCEPT ![DrugIdOf(inventory, Head(hit).id)].current_stock =
                                                  @ + Head(hit).suggested_quantity]
                     /\ success' = Ok(TRUE)
                ELSE /\ success' = Ok(FALSE)
                     /\ UNCHANGED <<purchase_orders, inventory>>
    /\ ret' = [kind |-> "suggestions", list |-> Rerun]
    /\ UNCHANGED <<alerts, consumption_patterns>>

\* the Approve button; a second order within the same second breaks the
\* UNIQUE order_number and the except branch returns False
create_purchase_order ==
    /\ \E i \in 1 .. Len(Shown), order_number \in OrderNumbers :
          LET hit == Pressed(Shown[i].id)
              taken == \E k \in 1 .. Len(purchase_orders) :
                          purchase_orders[k].order_number = order_number
          IN /\ hit # <<>>
             /\ IF DrugIdOf(inventory, Head(hit).id) # 0 /\ ~taken
                THEN /\ purchase_orders' =
                            Append(purchase_orders, PurchaseOrder(order_number, Head(hit)))
                     /\ success' = Ok(TRUE)
                ELSE /\ success' = Ok(FALSE)
                     /\ UNCHANGED purchase_orders
    /\ ret' = [kind |-> "suggestions", list |-> Rerun]
    /\ UNCHANGED <<alerts, inventory, consumption_patterns>>

\* the Snooze (1 day) button
snooze_reorder_suggestion ==
    /\ Len(alerts) < MaxAlerts
    /\ \E i \in 1 .. Len(Shown) :
          LET hit == Pressed(Shown[i].id)
          IN /\ hit # <<>>
             /\ alerts' = Append(alerts, Alert("reorder_snooze", "Snoozed for 1 days",
                                               Head(hit).id))
    /\ success' = Ok(TRUE)
    /\ ret' = [kind |-> "suggestions", list |-> Rerun]
    /\ UNCHANGED <<purchase_orders, inventory, consumption_patterns>>

\* the Dismiss button
dismiss_reorder_suggestion ==
    /\ Len(alerts) < MaxAlerts
    /\ \E i \in 1 .. Len(Shown) :
          LET hit == Pressed(Shown[i].id)
          IN /\ hit # <<>>
             /\ alerts' = Append(alerts, Alert("reorder_dismissed",
                                               "Reorder suggestion dismissed", Head(hit).id))
    /\ success' = Ok(TRUE)
    /\ ret' = [kind |-> "suggestions", list |-> Rerun]
    /\ UNCHANGED <<purchase_orders, inventory, consumption_patterns>>

\* a run of the page without a pressed button
AnalysisPass ==
    /\ GetReorderSuggestions
    /\ success' = NotCalled
    /\ UNCHANGED <<purchase_orders, alerts>>


(***************************************************************************)
(* Direct calls of calculate_risk_score and predict_wastage.               *)
(***************************************************************************)
\* days_to_use around the bucket boundaries of both functions
DaysValues ==
    {Flt(d) : d \in {0, 29, 30, 31, 59, 60, 61, 89, 90, 91, 180, 181, 365, 366}}
        \cup {Num(59, 2), Num(181, 2), Inf}

\* trends around -0.2, -0.1, 0 and 0.1
TrendValues ==
    {Num(-1, 2), Num(-1, 5), Num(-3, 20), Num(-1, 10), Num(-1, 20), Flt(0),
     Num(1, 10), Num(3, 20)}

\* consumption with cv 0, 1/3, exactly 1/2, 0.82, exactly 1, 1.41, and average 0
SpreadSeries ==
    {<<0, 0>>, <<5, 5>>, <<5, 10>>, <<0, 5, 5, 5, 5>>, <<0, 5, 10>>, <<0, 10>>, <<0, 0, 10>>}

ScoreInputs == [trend : TrendValues, daily_consumption : SpreadSeries]

\* one call with the inputs' trend, std and average and some days_to_use
CalculateRiskScore ==
    /\ prev_risk = NotCalled
    /\ \E days_to_use \in DaysValues :
          risk' = [kind |-> "score", days_to_use |-> days_to_use,
                   score |-> calculate_risk_score(days_to_use, score_inputs.trend,
                                                  score_inputs.daily_consumption,
                                                  Mean(score_inputs.daily_consumption))]
    /\ prev_risk' = risk
    /\ UNCHANGED <<score_inputs, wastage_inputs, wastage>>

WastageStocks == {-1, 0, 1, 200}

WastageInputs ==
    [current_stock : WastageStocks, avg_consumption : {Flt(0), Flt(5)},
     trend : TrendValues, days_to_use : DaysValues]

PredictWastage ==
    /\ wastage = NotCalled
    /\ wastage' = predict_wastage(wastage_inputs.current_stock, wastage_inputs.avg_consumption,
                                  wastage_inputs.trend, wastage_inputs.days_to_use)
    /\ UNCHANGED <<score_inputs, risk, prev_risk, wastage_inputs>>


(***************************************************************************)
(* Specifications.  Each exercises one component; the state of the others  *)
(* stays as it is before their first call.                                 *)
(***************************************************************************)
\* analyze_item_for_reorder and calculate_order_quantity on one row
InitItem ==
    /\ item \in ItemRows /\ suggestion = NotCalled /\ order_qty = NotCalled
    /\ inventory = <<>> /\ consumption_patterns = <<>> /\ ret = NotCalled
    /\ profiles = <<>> /\ last_call = NotCalled /\ prev_call = NotCalled
    /\ history = NotCalled /\ assessment = NotCalled
    /\ score_inputs = NotCalled /\ risk = NotCalled /\ prev_risk = NotCalled
    /\ wastage_inputs = NotCalled /\ wastage = NotCalled
    /\ request = NotCalled /\ forecast_result = NotCalled
    /\ scaler = NotCalled /\ models = NotCalled
    /\ pc = NotCalled /\ calls = NotCalled /\ results = NotCalled
    /\ rec_call = NotCalled /\ recommendations = NotCalled
    /\ last_row = NotCalled /\ future = NotCalled
    /\ frame = NotCalled /\ features = NotCalled
    /\ supplier_rows = NotCalled /\ supplier_analysis = NotCalled
    /\ purchase_orders = NotCalled /\ alerts = NotCalled /\ success = NotCalled

NextItem ==
    \/ AnalyzeItem /\ UNCHANGED <<dbVars, supplierVars, expiryVars, scoreVars, forecastVars, recVars, futureVars, featureVars, supplierTableVars, orderVars>>
    \/ CalculateOrderQuantity /\ UNCHANGED <<dbVars, supplierVars, expiryVars, scoreVars, forecastVars, recVars, futureVars, featureVars, supplierTableVars, orderVars>>

SpecItem == InitItem /\ [][NextItem]_vars

\* the database and get_reorder_suggestions over it: one default drug, whose
\* default consumption rows are older than 30 days
InitReorder ==
    /\ inventory \in {<<InventoryRow(1, c, m, p, s)>> :
                        c \in DbStocks, m \in DbMinimums, p \in DbPrices, s \in DbSupplierNames}
    /\ consumption_patterns = <<>> /\ ret = NotCalled
    /\ item = NotCalled /\ suggestion = NotCalled /\ order_qty = NotCalled
    /\ profiles = <<>> /\ last_call = NotCalled /\ prev_call = NotCalled
    /\ history = NotCalled /\ assessment = NotCalled
    /\ score_inputs = NotCalled /\ risk = NotCalled /\ prev_risk = NotCalled
    /\ wastage_inputs = NotCalled /\ wastage = NotCalled
    /\ request = NotCalled /\ forecast_result = NotCalled
    /\ scaler = NotCalled /\ models = NotCalled
    /\ pc = NotCalled /\ calls = NotCalled /\ results = NotCalled
    /\ rec_call = NotCalled /\ recommendations = NotCalled
    /\ last_row = NotCalled /\ future = NotCalled
    /\ frame = NotCalled /\ features = NotCalled
    /\ supplier_rows = NotCalled /\ supplier_analysis = NotCalled
    /\ purchase_orders = NotCalled /\ alerts = NotCalled /\ success = NotCalled

NextReorder ==
    \/ add_inventory_item /\ UNCHANGED <<itemVars, supplierVars, expiryVars, scoreVars, forecastVars, recVars, futureVars, featureVars, supplierTableVars, orderVars>>
    \/ update_stock_level /\ UNCHANGED <<itemVars, supplierVars, expiryVars, scoreVars, forecastVars, recVars, futureVars, featureVars, supplierTableVars, orderVars>>
    \/ add_sample_data /\ UNCHANGED <<itemVars, supplierVars, expiryVars, scoreVars, forecastVars, recVars, futureVars, featureVars, supplierTableVars, orderVars>>
    \/ RowLeavesWindow /\ UNCHANGED <<itemVars, supplierVars, expiryVars, scoreVars, forecastVars, recVars, futureVars, featureVars, supplierTableVars, orderVars>>
    \/ GetReorderSuggestions /\ UNCHANGED <<itemVars, supplierVars, expiryVars, scoreVars, forecastVars, recVars, futureVars, featureVars, supplierTableVars, orderVars>>

SpecReorder == InitReorder /\ [][NextReorder]_vars

\* optimize_supplier_selection, called repeatedly on one supplier collection
InitSupplier ==
    /\ profiles \in SupplierLists /\ last_call = NotCalled /\ prev_call = NotCalled
    /\ item = NotCalled /\ suggestion = NotCalled /\ order_qty = NotCalled
    /\ inventory = <<>> /\ consumption_patterns = <<>> /\ ret = NotCalled
    /\ history = NotCalled /\ assessment = NotCalled
    /\ score_inputs = NotCalled /\ risk = NotCalled /\ prev_risk = NotCalled
    /\ wastage_inputs = NotCalled /\ wastage = NotCalled
    /\ request = NotCalled /\ forecast_result = NotCalled
    /\ scaler = NotCalled /\ models = NotCalled
    /\ pc = NotCalled /\ calls = NotCalled /\ results = NotCalled
    /\ rec_call = NotCalled /\ recommendations = NotCalled
    /\ last_row = NotCalled /\ future = NotCalled
    /\ frame = NotCalled /\ features = NotCalled
    /\ supplier_rows = NotCalled /\ supplier_analysis = NotCalled
    /\ purchase_orders = NotCalled /\ alerts = NotCalled /\ success = NotCalled

NextSupplier == OptimizeSupplierSelection /\ UNCHANGED <<itemVars, dbVars, expiryVars, scoreVars, forecastVars, recVars, futureVars, featureVars, supplierTableVars, orderVars>>

SpecSupplier == InitSupplier /\ [][NextSupplier]_vars

\* predict_expiry_risk on one drug's history and stock
InitExpiry ==
    /\ history \in Histories /\ assessment = NotCalled
    /\ item = NotCalled /\ suggestion = NotCalled /\ order_qty = NotCalled
    /\ inventory = <<>> /\ consumption_patterns = <<>> /\ ret = NotCalled
    /\ profiles = <<>> /\ last_call = NotCalled /\ prev_call = NotCalled
    /\ score_inputs = NotCalled /\ risk = NotCalled /\ prev_risk = NotCalled
    /\ wastage_inputs = NotCalled /\ wastage = NotCalled
    /\ request = NotCalled /\ forecast_result = NotCalled
    /\ scaler = NotCalled /\ models = NotCalled
    /\ pc = NotCalled /\ calls = NotCalled /\ results = NotCalled
    /\ rec_call = NotCalled /\ recommendations = NotCalled
    /\ last_row = NotCalled /\ future = NotCalled
    /\ frame = NotCalled /\ features = NotCalled
    /\ supplier_rows = NotCalled /\ supplier_analysis = NotCalled
    /\ purchase_orders = NotCalled /\ alerts = NotCalled /\ success = NotCalled

NextExpiry == PredictExpiryRisk /\ UNCHANGED <<itemVars, dbVars, supplierVars, scoreVars, forecastVars, recVars, futureVars, featureVars, supplierTableVars, orderVars>>

SpecExpiry == InitExpiry /\ [][NextExpiry]_vars

\* calculate_risk_score, called twice on one trend and consumption
InitScore ==
    /\ score_inputs \in ScoreInputs /\ risk = NotCalled /\ prev_risk = NotCalled
    /\ wastage_inputs = NotCalled /\ wastage = NotCalled
    /\ item = NotCalled /\ suggestion = NotCalled /\ order_qty = NotCalled
    /\ inventory = <<>> /\ consumption_patterns = <<>> /\ ret = NotCalled
    /\ profiles = <<>> /\ last_call = NotCalled /\ prev_call = NotCalled
    /\ history = NotCalled /\ assessment = NotCalled
    /\ request = NotCalled /\ forecast_result = NotCalled
    /\ scaler = NotCalled /\ models = NotCalled
    /\ pc = NotCalled /\ calls = NotCalled /\ results = NotCalled
    /\ rec_call = NotCalled /\ recommendations = NotCalled
    /\ last_row = NotCalled /\ future = NotCalled
    /\ frame = NotCalled /\ features = NotCalled
    /\ supplier_rows = NotCalled /\ supplier_analysis = NotCalled
    /\ purchase_orders = NotCalled /\ alerts = NotCalled /\ success = NotCalled

NextScore ==
    CalculateRiskScore /\ UNCHANGED <<itemVars, dbVars, supplierVars, expiryVars, forecastVars, recVars, futureVars, featureVars, supplierTableVars, orderVars>>

SpecScore == InitScore /\ [][NextScore]_vars

\* predict_wastage on one set of arguments
InitWastage ==
    /\ wastage_inputs \in WastageInputs /\ wastage = NotCalled
    /\ score_inputs = NotCalled /\ risk = NotCalled /\ prev_risk = NotCalled
    /\ item = NotCalled /\ suggestion = NotCalled /\ order_qty = NotCalled
    /\ inventory = <<>> /\ consumption_patterns = <<>> /\ ret = NotCalled
    /\ profiles = <<>> /\ last_call = NotCalled /\ prev_call = NotCalled
    /\ history = NotCalled /\ assessment = NotCalled
    /\ request = NotCalled /\ forecast_result = NotCalled
    /\ scaler = NotCalled /\ models = NotCalled
    /\ pc = NotCalled /\ calls = NotCalled /\ results = NotCalled
    /\ rec_call = NotCalled /\ recommendations = NotCalled
    /\ last_row = NotCalled /\ future = NotCalled
    /\ frame = NotCalled /\ features = NotCalled
    /\ supplier_rows = NotCalled /\ supplier_analysis = NotCalled
    /\ purchase_orders = NotCalled /\ alerts = NotCalled /\ success = NotCalled

NextWastage ==
    PredictWastage /\ UNCHANGED <<itemVars, dbVars, supplierVars, expiryVars, forecastVars, recVars, futureVars, featureVars, supplierTableVars, orderVars>>

SpecWastage == InitWastage /\ [][NextWastage]_vars

\* generate_forecast on one series, horizon and model variant
InitForecast ==
    /\ request \in ForecastRequests /\ forecast_result = NotCalled
    /\ scaler = Unfitted /\ models = [t \in FittedTypes |-> Unfitted]
    /\ pc = NotCalled /\ calls = NotCalled /\ results = NotCalled
    /\ score_inputs = NotCalled /\ risk = NotCalled /\ prev_risk = NotCalled
    /\ wastage_inputs = NotCalled /\ wastage = NotCalled
    /\ item = NotCalled /\ suggestion = NotCalled /\ order_qty = NotCalled
    /\ inventory = <<>> /\ consumption_patterns = <<>> /\ ret = NotCalled
    /\ profiles = <<>> /\ last_call = NotCalled /\ prev_call = NotCalled
    /\ history = NotCalled /\ assessment = NotCalled
    /\ rec_call = NotCalled /\ recommendations = NotCalled
    /\ last_row = NotCalled /\ future = NotCalled
    /\ frame = NotCalled /\ features = NotCalled
    /\ supplier_rows = NotCalled /\ supplier_analysis = NotCalled
    /\ purchase_orders = NotCalled /\ alerts = NotCalled /\ success = NotCalled

NextForecast ==
    GenerateForecast /\ UNCHANGED <<itemVars, dbVars, supplierVars, expiryVars, scoreVars, recVars, futureVars, featureVars, supplierTableVars, orderVars>>

SpecForecast == InitForecast /\ [][NextForecast]_vars

\* generate_forecast and predict_expiry_risk for a drug with no consumption
InitZeroSeries ==
    /\ request \in ZeroRequests /\ forecast_result = NotCalled
    /\ scaler = Unfitted /\ models = [t \in FittedTypes |-> Unfitted]
    /\ history \in ZeroHistories /\ assessment = NotCalled
    /\ history.consumption = RecentDays(request.historical_data)
    /\ pc = NotCalled /\ calls = NotCalled /\ results = NotCalled
    /\ score_inputs = NotCalled /\ risk = NotCalled /\ prev_risk = NotCalled
    /\ wastage_inputs = NotCalled /\ wastage = NotCalled
    /\ item = NotCalled /\ suggestion = NotCalled /\ order_qty = NotCalled
    /\ inventory = <<>> /\ consumption_patterns = <<>> /\ ret = NotCalled
    /\ profiles = <<>> /\ last_call = NotCalled /\ prev_call = NotCalled
    /\ rec_call = NotCalled /\ recommendations = NotCalled
    /\ last_row = NotCalled /\ future = NotCalled
    /\ frame = NotCalled /\ features = NotCalled
    /\ supplier_rows = NotCalled /\ supplier_analysis = NotCalled
    /\ purchase_orders = NotCalled /\ alerts = NotCalled /\ success = NotCalled

NextZeroSeries ==
    \/ GenerateForecast /\ UNCHANGED <<itemVars, dbVars, supplierVars, expiryVars, scoreVars, recVars, futureVars, featureVars, supplierTableVars, orderVars>>
    \/ PredictExpiryRisk /\ UNCHANGED <<itemVars, dbVars, supplierVars, scoreVars, forecastVars, recVars, futureVars, featureVars, supplierTableVars, orderVars>>

SpecZeroSeries == InitZeroSeries /\ [][NextZeroSeries]_vars

\* two generate_forecast calls running on the shared instance
InitConcurrent ==
    /\ calls \in [CallIds -> ConcurrentRequests]
    /\ pc = [c \in CallIds |-> "start"]
    /\ results = [c \in CallIds |-> NotCalled]
    /\ scaler = Unfitted /\ models = [t \in FittedTypes |-> Unfitted]
    /\ request = NotCalled /\ forecast_result = NotCalled
    /\ score_inputs = NotCalled /\ risk = NotCalled /\ prev_risk = NotCalled
    /\ wastage_inputs = NotCalled /\ wastage = NotCalled
    /\ item = NotCalled /\ suggestion = NotCalled /\ order_qty = NotCalled
    /\ inventory = <<>> /\ consumption_patterns = <<>> /\ ret = NotCalled
    /\ profiles = <<>> /\ last_call = NotCalled /\ prev_call = NotCalled
    /\ history = NotCalled /\ assessment = NotCalled
    /\ rec_call = NotCalled /\ recommendations = NotCalled
    /\ last_row = NotCalled /\ future = NotCalled
    /\ frame = NotCalled /\ features = NotCalled
    /\ supplier_rows = NotCalled /\ supplier_analysis = NotCalled
    /\ purchase_orders = NotCalled /\ alerts = NotCalled /\ success = NotCalled

NextConcurrent ==
    /\ \E c \in CallIds :
           \/ Start(c)
           \/ ScalerFit(c)
           \/ ModelFit(c)
           \/ Validation(c)
           \/ FutureForecast(c)
    /\ UNCHANGED <<itemVars, dbVars, supplierVars, expiryVars, scoreVars, recVars, futureVars, featureVars, supplierTableVars, orderVars>>

SpecConcurrent == InitConcurrent /\ [][NextConcurrent]_vars

\* generate_recommendations on one forecast result and stock
InitRecommend ==
    /\ rec_call \in RecommendationCalls /\ recommendations = NotCalled
    /\ item = NotCalled /\ suggestion = NotCalled /\ order_qty = NotCalled
    /\ inventory = <<>> /\ consumption_patterns = <<>> /\ ret = NotCalled
    /\ profiles = <<>> /\ last_call = NotCalled /\ prev_call = NotCalled
    /\ history = NotCalled /\ assessment = NotCalled
    /\ score_inputs = NotCalled /\ risk = NotCalled /\ prev_risk = NotCalled
    /\ wastage_inputs = NotCalled /\ wastage = NotCalled
    /\ request = NotCalled /\ forecast_result = NotCalled
    /\ scaler = NotCalled /\ models = NotCalled
    /\ pc = NotCalled /\ calls = NotCalled /\ results = NotCalled
    /\ last_row = NotCalled /\ future = NotCalled
    /\ frame = NotCalled /\ features = NotCalled
    /\ supplier_rows = NotCalled /\ supplier_analysis = NotCalled
    /\ purchase_orders = NotCalled /\ alerts = NotCalled /\ success = NotCalled

NextRecommend ==
    GenerateRecommendations
        /\ UNCHANGED <<itemVars, dbVars, supplierVars, expiryVars, scoreVars, forecastVars, futureVars, featureVars, supplierTableVars, orderVars>>

SpecRecommend == InitRecommend /\ [][NextRecommend]_vars

\* _generate_future_forecast on the rows of one series
InitFuture ==
    /\ \E series \in FutureSeries, model_type \in FittedTypes,
          forecast_days \in 0 .. MaxFutureDays :
           /\ future = FutureCall(series, model_type, forecast_days)
           /\ last_row = LastRowOf(series)
    /\ rec_call = NotCalled /\ recommendations = NotCalled
    /\ item = NotCalled /\ suggestion = NotCalled /\ order_qty = NotCalled
    /\ inventory = <<>> /\ consumption_patterns = <<>> /\ ret = NotCalled
    /\ profiles = <<>> /\ last_call = NotCalled /\ prev_call = NotCalled
    /\ history = NotCalled /\ assessment = NotCalled
    /\ score_inputs = NotCalled /\ risk = NotCalled /\ prev_risk = NotCalled
    /\ wastage_inputs = NotCalled /\ wastage = NotCalled
    /\ request = NotCalled /\ forecast_result = NotCalled
    /\ scaler = NotCalled /\ models = NotCalled
    /\ pc = NotCalled /\ calls = NotCalled /\ results = NotCalled
    /\ frame = NotCalled /\ features = NotCalled
    /\ supplier_rows = NotCalled /\ supplier_analysis = NotCalled
    /\ purchase_orders = NotCalled /\ alerts = NotCalled /\ success = NotCalled

NextFuture ==
    FutureStep
        /\ UNCHANGED <<itemVars, dbVars, supplierVars, expiryVars, scoreVars, forecastVars, recVars, featureVars, supplierTableVars, orderVars>>

SpecFuture == InitFuture /\ [][NextFuture]_vars

\* prepare_features on one frame
InitFeatures ==
    /\ frame \in Frames /\ features = NotCalled
    /\ last_row = NotCalled /\ future = NotCalled
    /\ rec_call = NotCalled /\ recommendations = NotCalled
    /\ item = NotCalled /\ suggestion = NotCalled /\ order_qty = NotCalled
    /\ inventory = <<>> /\ consumption_patterns = <<>> /\ ret = NotCalled
    /\ profiles = <<>> /\ last_call = NotCalled /\ prev_call = NotCalled
    /\ history = NotCalled /\ assessment = NotCalled
    /\ score_inputs = NotCalled /\ risk = NotCalled /\ prev_risk = NotCalled
    /\ wastage_inputs = NotCalled /\ wastage = NotCalled
    /\ request = NotCalled /\ forecast_result = NotCalled
    /\ scaler = NotCalled /\ models = NotCalled
    /\ pc = NotCalled /\ calls = NotCalled /\ results = NotCalled
    /\ supplier_rows = NotCalled /\ supplier_analysis = NotCalled
    /\ purchase_orders = NotCalled /\ alerts = NotCalled /\ success = NotCalled

NextFeatures ==
    PrepareFeatures
        /\ UNCHANGED <<itemVars, dbVars, supplierVars, expiryVars, scoreVars, forecastVars,
                       recVars, futureVars, supplierTableVars, orderVars>>

SpecFeatures == InitFeatures /\ [][NextFeatures]_vars

\* analyze_suppliers on one state of the suppliers table
InitAnalysis ==
    /\ \E table \in SupplierTables :
           supplier_rows =
               [i \in 1 .. Len(table) |->
                   SupplierRow(i, table[i].reliability_score, table[i].cost_rating,
                               table[i].quality_score)]
    /\ supplier_analysis = NotCalled
    /\ purchase_orders = <<>> /\ alerts = <<>> /\ success = NotCalled
    /\ frame = NotCalled /\ features = NotCalled
    /\ last_row = NotCalled /\ future = NotCalled
    /\ rec_call = NotCalled /\ recommendations = NotCalled
    /\ item = NotCalled /\ suggestion = NotCalled /\ order_qty = NotCalled
    /\ inventory = <<>> /\ consumption_patterns = <<>> /\ ret = NotCalled
    /\ profiles = <<>> /\ last_call = NotCalled /\ prev_call = NotCalled
    /\ history = NotCalled /\ assessment = NotCalled
    /\ score_inputs = NotCalled /\ risk = NotCalled /\ prev_risk = NotCalled
    /\ wastage_inputs = NotCalled /\ wastage = NotCalled
    /\ request = NotCalled /\ forecast_result = NotCalled
    /\ scaler = NotCalled /\ models = NotCalled
    /\ pc = NotCalled /\ calls = NotCalled /\ results = NotCalled

NextAnalysis ==
    AnalyzeSuppliers
        /\ UNCHANGED <<itemVars, dbVars, supplierVars, expiryVars, scoreVars, forecastVars,
                       recVars, futureVars, featureVars>>

SpecAnalysis == InitAnalysis /\ [][NextAnalysis]_vars

\* the reordering page over one or two drugs, with or without consumption
\* in the trailing window
InitPage ==
    /\ \E c \in DbStocks, m \in DbMinimums, p \in DbPrices, s \in DbSupplierNames,
          n \in 1 .. MaxDrugs :
          inventory = SubSeq(<<InventoryRow(1, c, m, p, s),
                               InventoryRow(2, 1, 2, p, "HealthDist Ltd"),
                               InventoryRow(3, 2, 2, p, "Receipt Import")>>, 1, n)
    /\ consumption_patterns \in {<<>>, <<[drug_id |-> 1, quantity_consumed |-> 2]>>}
    /\ ret = NotCalled
    /\ purchase_orders = <<>> /\ alerts = <<>> /\ success = NotCalled
    /\ supplier_rows = NotCalled /\ supplier_analysis = NotCalled
    /\ frame = NotCalled /\ features = NotCalled
    /\ last_row = NotCalled /\ future = NotCalled
    /\ rec_call = NotCalled /\ recommendations = NotCalled
    /\ item = NotCalled /\ suggestion = NotCalled /\ order_qty = NotCalled
    /\ profiles = <<>> /\ last_call = NotCalled /\ prev_call = NotCalled
    /\ history = NotCalled /\ assessment = NotCalled
    /\ score_inputs = NotCalled /\ risk = NotCalled /\ prev_risk = NotCalled
    /\ wastage_inputs = NotCalled /\ wastage = NotCalled
    /\ request = NotCalled /\ forecast_result = NotCalled
    /\ scaler = NotCalled /\ models = NotCalled
    /\ pc = NotCalled /\ calls = NotCalled /\ results = NotCalled

NextPage ==
    \/ AnalysisPass
          /\ UNCHANGED <<itemVars, supplierVars, expiryVars, scoreVars, forecastVars,
                         recVars, futureVars, featureVars, supplierTableVars>>
    \/ create_purchase_order
          /\ UNCHANGED <<itemVars, supplierVars, expiryVars, scoreVars, forecastVars,
                         recVars, futureVars, featureVars, supplierTableVars>>
    \/ snooze_reorder_suggestion
          /\ UNCHANGED <<itemVars, supplierVars, expiryVars, scoreVars, forecastVars,
                         recVars, futureVars, featureVars, supplierTableVars>>
    \/ dismiss_reorder_suggestion
          /\ UNCHANGED <<itemVars, supplierVars, expiryVars, scoreVars, forecastVars,
                         recVars, futureVars, featureVars, supplierTableVars>>

SpecPage == InitPage /\ [][NextPage]_vars




(***************************************************************************)
(* Properties of the Reorder Analyzer on one row (SpecItem).               *)
(***************************************************************************)
IMax(a, b) == IF a >= b THEN a ELSE b

Analyzed == suggestion # NotCalled
Suggested == suggestion.kind = "suggestion"

\* the usage and lead time the analyzer works with when the row has none
RowUsage(r) == IF r.avg_daily_usage = None THEN Flt(0) ELSE r.avg_daily_usage
RowLead(r) == IF r.lead_time_days = None THEN Flt(7) ELSE r.lead_time_days

\* C1: a suggestion's priority is high iff current_stock <= minimum_stock,
\* medium iff minimum_stock < current_stock <= 1.5 * minimum_stock, low otherwise.
C1_PriorityBands ==
    Suggested =>
        LET c == item.current_stock
            m == item.minimum_stock
        IN /\ (suggestion.priority = "high") <=> (c <= m)
           /\ (suggestion.priority = "medium") <=> (m < c /\ 2 * c <= 3 * m)
           /\ (suggestion.priority = "low") <=> (m < c /\ 2 * c > 3 * m)

\* a suggestion for a row whose stock is exactly its (positive) minimum
C1_BoundaryReached ==
    /\ Suggested
    /\ item.minimum_stock > 0
    /\ item.current_stock = item.minimum_stock
    /\ suggestion.priority = "high"

\* the scenario row: usage 10, stock 50, minimum 20, lead time 7
ScenarioRow ==
    /\ item.current_stock = 50
    /\ item.minimum_stock = 20
    /\ item.avg_daily_usage = Num(10, 1)
    /\ item.lead_time_days = Flt(7)

\* C3, as stated: on the scenario row the analyzer triggers with priority
\* high and an order quantity of at least 70.
C3_ScenarioHigh ==
    (Analyzed /\ ScenarioRow) =>
        /\ Suggested
        /\ suggestion.priority = "high"
        /\ suggestion.suggested_quantity >= 70

\* C3, amended: on the scenario row the analyzer triggers with priority low
\* (50 is above 1.5 * 20) and an order quantity of at least 70.
C3_ScenarioLow ==
    (Analyzed /\ ScenarioRow) =>
        /\ Suggested
        /\ suggestion.priority = "low"
        /\ suggestion.suggested_quantity >= 70

C3_ScenarioAnalyzed == Analyzed /\ ScenarioRow /\ Suggested

\* max(max(0, usage * lead * 2 + minimum - stock), usage * 7), or 2 * minimum
\* for usage <= 0, for usage u and lead time l given as fractions
ClosedQuantity(c, m, u, l) ==
    IF u.num <= 0
    THEN Num(2 * m, 1)
    ELSE Num(IMax(IMax(0, 2 * u.num * l.num + u.den * l.den * (m - c)), 7 * u.num * l.den),
             u.den * l.den)

\* C4: calculate_order_quantity returns 2 * minimum_stock for usage <= 0 and
\* max(max(0, usage * lead * 2 + minimum - stock), usage * 7) otherwise, so at
\* least a week of usage; the reported quantity is its integer part, >= 0.
C4_OrderQuantity ==
    /\ order_qty # NotCalled =>
          LET u == item.avg_daily_usage
              q == ClosedQuantity(item.current_stock, item.minimum_stock, u, item.lead_time_days)
          IN /\ Eq(order_qty, q)
             /\ u.num > 0 => order_qty.num * u.den >= 7 * u.num * order_qty.den
    /\ Suggested =>
          LET q == ClosedQuantity(item.current_stock, item.minimum_stock,
                                  RowUsage(item), RowLead(item))
          IN /\ suggestion.suggested_quantity \in Nat
             /\ suggestion.suggested_quantity = q.num \div q.den

\* a suggestion whose quantity is the one-week floor, here not a whole number
C4_FloorReached ==
    /\ Suggested
    /\ order_qty # NotCalled
    /\ item.avg_daily_usage.num > 0
    /\ Eq(order_qty, Mul(item.avg_daily_usage, Flt(7)))
    /\ order_qty.den = 2
    /\ suggestion.suggested_quantity * 2 < order_qty.num

\* C6: days_until_stockout is the integer part of stock / usage for positive
\* usage, and it is 999 exactly when the usage is not positive.
C6_SentinelOnlyWithoutUsage ==
    Suggested =>
        LET u == RowUsage(item)
        IN /\ u.num > 0 =>
                suggestion.days_until_stockout = (item.current_stock * u.den) \div u.num
           /\ (suggestion.days_until_stockout = 999) <=> ~(u.num > 0)

(***************************************************************************)
(* Properties of get_reorder_suggestions over the database (SpecReorder).  *)
(***************************************************************************)
Listed == ret.kind = "suggestions"

\* the rows the analyzer was given for the suggestions in ret
ReorderData == get_reorder_suggestions_data(inventory, consumption_patterns)

SuggestionsFor(id) == {k \in 1 .. Len(ret.list) : ret.list[k].id = id}

\* the drug has no consumption row in the trailing 30 days
NoUsage(drug) ==
    \A k \in 1 .. Len(consumption_patterns) : consumption_patterns[k].drug_id # drug.id

\* the drug's trailing average, 0 if none, and its supplier's lead time, 7 if unknown
DrugUsage(drug) ==
    IF NoUsage(drug) THEN Flt(0) ELSE SqlAvgUsage(inventory, consumption_patterns, drug.id)
DrugLead(drug) ==
    IF SqlLeadTime(drug.supplier_name) = None THEN Flt(7) ELSE SqlLeadTime(drug.supplier_name)

\* current_stock <= minimum_stock + usage * lead * 1.5, in integers
AtOrBelowReorderPoint(drug) ==
    LET u == DrugUsage(drug)
        l == DrugLead(drug)
    IN 2 * u.den * l.den * drug.current_stock
           <= 2 * u.den * l.den * drug.minimum_stock + 3 * u.num * l.num

\* C2: a drug gets a suggestion iff current_stock <= reorder_point, with
\* reorder_point = minimum_stock + avg_daily_usage * lead_time_days * 1.5, so
\* the list of get_reorder_suggestions holds exactly the drugs at or below
\* their reorder point, each once.
C2_ExactlyAtOrBelowReorderPoint ==
    Listed =>
        /\ \A i \in 1 .. Len(inventory) :
              Cardinality(SuggestionsFor(inventory[i].id))
                  = IF AtOrBelowReorderPoint(inventory[i]) THEN 1 ELSE 0
        /\ \A k \in 1 .. Len(ret.list) :
              \E i \in 1 .. Len(inventory) : inventory[i].id = ret.list[k].id

\* C5: in the returned list every high suggestion precedes every medium one
\* and every medium precedes every low one, and suggestions of equal priority
\* are in the order of their rows in the input data.
C5_SortedStable ==
    Listed =>
        \A i, j \in 1 .. Len(ret.list) :
            i < j =>
                LET a == ret.list[i]
                    b == ret.list[j]
                    RowOf(s) == CHOOSE k \in 1 .. Len(ReorderData) : ReorderData[k].id = s.id
                IN /\ priority_order(a.priority) >= priority_order(b.priority)
                   /\ a.priority = b.priority => RowOf(a) < RowOf(b)

\* a list the sort had to reorder: a later row's suggestion comes first
C5_Reordered ==
    /\ Listed
    /\ Len(ret.list) >= 2
    /\ ret.list[1].id > ret.list[2].id
    /\ priority_order(ret.list[1].priority) > priority_order(ret.list[2].priority)

\* C7: a drug without consumption in the trailing 30 days is analysed with
\* usage 0 (and an unknown supplier's lead time as 7): when its stock is at or
\* below its minimum it has a suggestion with suggested_quantity
\* 2 * minimum_stock and days_until_stockout 999; it is never skipped.
C7_NoUsageDefaults ==
    Listed =>
        \A i \in 1 .. Len(inventory) :
            (NoUsage(inventory[i]) /\ inventory[i].current_stock <= inventory[i].minimum_stock) =>
                \E k \in 1 .. Len(ret.list) :
                    /\ ret.list[k].id = inventory[i].id
                    /\ ret.list[k].suggested_quantity = 2 * inventory[i].minimum_stock
                    /\ ret.list[k].days_until_stockout = 999

(***************************************************************************)
(* Properties of the Supplier Scorer (SpecSupplier).                       *)
(***************************************************************************)
Called == last_call.kind = "call"

\* 100 * (0.3 * reliability + 0.4 * (6 - cost_rating) + 0.2 * quality
\*        + 0.1 * max(0, 10 - avg_delivery_time) / 10 * 5), absent ratings
\* being 3 and an absent delivery time 7
ScoreTimes100(s) ==
    LET r == Get(s.reliability_score, Flt(3)).num
        c == Get(s.cost_rating, Flt(3)).num
        q == Get(s.quality_score, Flt(3)).num
        d == Get(s.avg_delivery_time, Flt(7)).num
    IN 30 * r + 40 * (6 - c) + 20 * q + 5 * IMax(0, 10 - d)

\* C8: on an empty collection optimize_supplier_selection returns none; on any
\* other it returns a supplier of the collection whose score is greater than
\* or equal to the score of every supplier in it.
C8_ArgMax ==
    Called =>
        IF last_call.suppliers = <<>>
        THEN last_call.result = NoSupplier
        ELSE /\ \E i \in 1 .. Len(last_call.suppliers) : last_call.suppliers[i] = last_call.result
             /\ \A i \in 1 .. Len(last_call.suppliers) :
                    ScoreTimes100(last_call.result) >= ScoreTimes100(last_call.suppliers[i])

\* the supplier listed second is selected: it scores strictly higher through
\* a lower cost rating, although its reliability is lower
C8_SecondSelected ==
    /\ Called
    /\ Len(last_call.suppliers) = 2
    /\ last_call.result = last_call.suppliers[2]
    /\ ScoreTimes100(last_call.suppliers[2]) > ScoreTimes100(last_call.suppliers[1])
    /\ Get(last_call.suppliers[2].cost_rating, Flt(3)).num
           < Get(last_call.suppliers[1].cost_rating, Flt(3)).num
    /\ Get(last_call.suppliers[2].reliability_score, Flt(3)).num
           < Get(last_call.suppliers[1].reliability_score, Flt(3)).num

ProfileSet(call) == {call.suppliers[i] : i \in 1 .. Len(call.suppliers)}

\* C9: two calls of optimize_supplier_selection on the same set of supplier
\* profiles, in whatever order they are listed and with any drug_name and
\* required_quantity, select the same supplier.
C9_SameSetSameSupplier ==
    (prev_call.kind = "call" /\ last_call.kind = "call"
        /\ ProfileSet(prev_call) = ProfileSet(last_call)) =>
            prev_call.result = last_call.result

(***************************************************************************)
(* Properties of the Expiry Risk Predictor (SpecExpiry).                   *)
(***************************************************************************)
\* C10: predict_expiry_risk returns none whenever current_stock is zero or
\* negative, whatever the consumption history.
C10_NoneUnlessStockPositive ==
    (assessment # NotCalled /\ get_current_stock(history) <= 0) =>
        assessment = NoAssessment

(***************************************************************************)
(* Properties of calculate_risk_score (SpecScore).                         *)
(***************************************************************************)
Scored == risk.kind = "score"

IMin(a, b) == IF a <= b THEN a ELSE b

\* the three terms in tenths, from the numbers themselves
DaysTenths(d) ==
    IF d = Inf THEN 1
    ELSE IF d.num < 30 * d.den THEN 4
    ELSE IF d.num < 60 * d.den THEN 3
    ELSE IF d.num < 90 * d.den THEN 2
    ELSE 1

TrendTenths(t) ==
    IF 10 * t.num < -2 * t.den THEN 3 ELSE IF t.num < 0 THEN 2 ELSE 1

\* cv^2 = (n * sum(x^2) - sum(x)^2) / sum(x)^2, compared with 1 and 1/4
VariabilityTenths(q) ==
    LET sum == SumSeq(q)
        spread == Len(q) * SumSquares(q) - sum * sum
    IN IF sum = 0 THEN 0
       ELSE IF spread > sum * sum THEN 3
       ELSE IF 4 * spread > sum * sum THEN 2
       ELSE 1

\* x >= y on sums of tenths
ScoreGe(x, y) == x.tenths > y.tenths \/ (x.tenths = y.tenths /\ x.ulps >= y.ulps)

DaysLe(d1, d2) == d2 = Inf \/ Le(d1, d2)

Assessed == assessment.kind = "assessment"

\* the sum of the three factor terms of the assessed history, in tenths
FactorTenths ==
    DaysTenths(assessment.days_to_use) + TrendTenths(assessment.trend)
        + VariabilityTenths(history.consumption)

\* C13: risk_level is high iff the risk score is >= 0.8, medium iff it is
\* >= 0.6 and < 0.8, low otherwise; factor terms that sum to exactly 0.8 give
\* high and terms that sum to exactly 0.6 give medium.
C13_LevelBoundariesInclusive ==
    (Assessed /\ history.current_stock > 0) =>
        /\ (assessment.risk_level = "high") <=> FloatGe(assessment.risk_score, 8)
        /\ (assessment.risk_level = "medium") <=>
               (FloatGe(assessment.risk_score, 6) /\ ~FloatGe(assessment.risk_score, 8))
        /\ FactorTenths = 8 => assessment.risk_level = "high"
        /\ FactorTenths = 6 => assessment.risk_level = "medium"

\* the sums of the last seven days and of the days before them
RecentSum(c) == SumSeq(SubSeq(c, Len(c) - 6, Len(c)))
OlderSum(c) == SumSeq(SubSeq(c, 1, Len(c) - 7))

\* the history's earlier days average 10 and its last seven days 5
HalvedHistory ==
    /\ Len(history.consumption) >= 8
    /\ RecentSum(history.consumption) = 5 * 7
    /\ OlderSum(history.consumption) = 10 * (Len(history.consumption) - 7)

\* C14: the trend is (mean(last 7) - mean(all but last 7)) / mean(all but
\* last 7) for a history of at least 8 points whose earlier mean is not 0, and
\* 0 otherwise; earlier days averaging 10 followed by seven days averaging 5
\* give trend -0.5 and the trend term 0.3.
C14_Trend ==
    Assessed =>
        LET c == history.consumption
            n == Len(c)
            t == assessment.trend
        IN /\ IF n >= 8 /\ OlderSum(c) # 0
              THEN t.num * 7 * OlderSum(c)
                       = t.den * (RecentSum(c) * (n - 7) - 7 * OlderSum(c))
              ELSE t = Flt(0)
           /\ HalvedHistory =>
                 /\ t = Num(-1, 2)
                 /\ assessment.risk_score.tenths
                        = DaysTenths(assessment.days_to_use) + 3
                              + VariabilityTenths(c)

\* the halved history assessed
C14_HalvedAssessed ==
    /\ Assessed
    /\ HalvedHistory
    /\ Len(history.consumption) = 10
    /\ assessment.trend = Num(-1, 2)

(***************************************************************************)
(* Properties of predict_wastage (SpecWastage).                            *)
(***************************************************************************)
WastagePredicted == wastage # NotCalled

\* the rate in hundredths and the trend multiplier in tenths
RateHundredths(d) ==
    IF d = Inf THEN 15
    ELSE IF d.num > 365 * d.den THEN 15
    ELSE IF d.num > 180 * d.den THEN 10
    ELSE IF d.num > 90 * d.den THEN 5
    ELSE 2

MultiplierTenths(t) ==
    IF 10 * t.num < -t.den THEN 15 ELSE IF 10 * t.num > t.den THEN 7 ELSE 10

\* C15: predict_wastage is max(0, current_stock * rate), the rate being 0.15,
\* 0.10, 0.05 or 0.02 for days_to_use > 365, > 180, > 90 or less, times 1.5
\* for trend < -0.1 and times 0.7 for trend > 0.1; it is never negative.
C15_Wastage ==
    WastagePredicted =>
        LET w == wastage_inputs
            expected == w.current_stock * RateHundredths(w.days_to_use)
                            * MultiplierTenths(w.trend)
        IN /\ IsNum(wastage)
           /\ wastage.num * 1000 = wastage.den * IMax(0, expected)
           /\ wastage.num >= 0

\* 200 units, more than a year to use, falling consumption: 200 * 0.15 * 1.5
C15_HighestRate ==
    /\ WastagePredicted
    /\ wastage_inputs.current_stock = 200
    /\ wastage_inputs.days_to_use = Flt(366)
    /\ wastage_inputs.trend = Num(-3, 20)
    /\ wastage = Flt(45)

\* C19: predict_expiry_risk returns none whenever the consumption history
\* has fewer than 7 points (here for a stock that is not negative).
C19_NoneBelowSevenPoints ==
    (assessment # NotCalled /\ history.current_stock >= 0
        /\ Len(get_historical_consumption(history)) < 7) =>
            assessment = NoAssessment

(***************************************************************************)
(* generate_forecast                                                       *)
(***************************************************************************)
Returned == forecast_result # NotCalled
Failed == Returned /\ forecast_result.kind = "error"
Succeeded == Returned /\ forecast_result.kind = "forecast"

NothingFitted == scaler = Unfitted /\ \A t \in FittedTypes : models[t] = Unfitted

Z2 == Num(2401, 625)

\* v >= 0 for a forecast value or a bound
NonNegative(v) ==
    IF v.kind = "band"
    THEN IF v.sign = 1
         THEN v.base.num >= 0 \/ Le(Mul(v.base, v.base), Mul(Z2, v.var))
         ELSE v.base.num >= 0 /\ Le(Mul(Z2, v.var), Mul(v.base, v.base))
    ELSE Le(Flt(0), v)

\* upper >= f, upper a bound above its base
UpperGe(upper, f) ==
    /\ upper.kind = "band" /\ upper.sign = 1 /\ upper.var.num >= 0
    /\ \/ Le(f, upper.base)
       \/ LET d == Sub(f, upper.base) IN Le(Mul(d, d), Mul(Z2, upper.var))

\* f >= lower, lower 0 or a bound below its base
GeLower(f, lower) ==
    IF lower.kind = "band"
    THEN /\ lower.sign = -1 /\ lower.var.num >= 0
         /\ \/ Le(lower.base, f)
            \/ LET d == Sub(lower.base, f) IN Le(Mul(d, d), Mul(Z2, lower.var))
    ELSE Le(lower, f)

\* C17: a successful generate_forecast with horizon N returns forecast,
\* confidence_upper and confidence_lower of length N, every forecast and
\* confidence_lower value >= 0, and confidence_upper[i] >= forecast[i] >=
\* confidence_lower[i] for every i.
C17_ForecastShape ==
    Succeeded =>
        /\ Len(forecast_result.forecast) = request.forecast_days
        /\ Len(forecast_result.confidence_upper) = request.forecast_days
        /\ Len(forecast_result.confidence_lower) = request.forecast_days
        /\ \A i \in 1 .. request.forecast_days :
               /\ NonNegative(forecast_result.forecast[i])
               /\ NonNegative(forecast_result.confidence_lower[i])
               /\ UpperGe(forecast_result.confidence_upper[i], forecast_result.forecast[i])
               /\ GeLower(forecast_result.forecast[i], forecast_result.confidence_lower[i])

\* a fitted model whose prediction was negative, and a lower bound above 0
C17_FlooredAndBandAboveZero ==
    /\ Succeeded
    /\ request.model_type = "Linear Regression"
    /\ request.forecast_days = MaxHorizon
    /\ forecast_result.forecast[1] = Flt(0)
    /\ forecast_result.confidence_lower[2].kind = "band"
    /\ forecast_result.confidence_lower[2].var.num > 0

\* C16: for an all-zero series long enough to forecast, generate_forecast
\* returns a forecast of zeros, one per day of the horizon, whatever the
\* horizon and the model variant; and predict_expiry_risk for a drug in
\* stock with an all-zero history reports days_to_use = +infinity.
C16_ZeroSeries ==
    /\ (Succeeded /\ AllZero(request.historical_data)) =>
           /\ Len(forecast_result.forecast) = request.forecast_days
           /\ \A i \in 1 .. request.forecast_days : forecast_result.forecast[i] = Flt(0)
    /\ (/\ Assessed /\ history.in_inventory /\ history.current_stock > 0
        /\ Len(history.consumption) >= 7 /\ AllZero(history.consumption)) =>
           assessment.days_to_use = Inf

\* both results for one drug: a fitted variant over the longest horizon
C16_ZeroForecastAndInfiniteDays ==
    /\ Succeeded /\ request.model_type = "Random Forest"
    /\ request.forecast_days = MaxHorizon
    /\ forecast_result.forecast[MaxHorizon] = Flt(0)
    /\ Assessed /\ history.current_stock > 0 /\ Len(history.consumption) >= 7
    /\ assessment.days_to_use = Inf

(***************************************************************************)
(* Overlapping calls                                                       *)
(***************************************************************************)
\* C20: when two generate_forecast calls with fitted-model variants overlap
\* on the shared instance, each call that has returned holds a result it
\* can return when run alone.
C20_ResultAsIfAlone ==
    \A c \in CallIds : pc[c] = "done" => results[c] \in AloneResults(calls[c])

\* C21: a generate_forecast call with forecast_days = 0 returns a failure,
\* never a result with empty sequences.
C21_ZeroHorizonFails ==
    (Returned /\ request.forecast_days = 0) => Failed

(***************************************************************************)
(* generate_recommendations                                                *)
(***************************************************************************)
Recommended == recommendations # NotCalled

\* the forecast handed in, when there is one
HasForecast == rec_call.forecast_result.kind = "forecast"

\* mean(forecast) as num/den, for a forecast that is not empty
DemandTotal == SumOf(rec_call.forecast_result.forecast)
DemandDays == Len(rec_call.forecast_result.forecast)

\* current_stock / mean(forecast) < bound, with the mean > 0
StockDaysBelow(bound) ==
    /\ DemandDays > 0 /\ DemandTotal.num > 0
    /\ rec_call.current_stock * DemandDays * DemandTotal.den < bound * DemandTotal.num

StockMessages ==
    SelectSeq(recommendations.list,
              LAMBDA r : r.message \in {"Critical: days of stock remaining",
                                        "Warning: days of stock remaining"})

C23_TrendAverageOverInput ==
    (Succeeded /\ request.model_type = "ARIMA") =>
        /\ forecast_result.forecast =
               arima_forecast(request.historical_data, request.forecast_days)
        /\ forecast_result.accuracy = Num(3, 4)

\* C24: the confidence band of a result is forecast[i] +/- 1.96 * s, the
\* lower bound floored at 0, with s the standard deviation of every point
\* of the series handed to generate_forecast.
C24_BandOverFullHistory ==
    Succeeded =>
        \A i \in 1 .. Len(forecast_result.forecast) :
            LET f == forecast_result.forecast[i]
                var == Variance(request.historical_data)
            IN /\ forecast_result.confidence_upper[i] = Band(f, 1, var)
               /\ forecast_result.confidence_lower[i] =
                      IF BandBelowPositive(f, var) THEN Band(f, -1, var) ELSE Flt(0)

(***************************************************************************)
(* _generate_future_forecast                                               *)
(***************************************************************************)
\* C25: the row fed to the model for future step k carries lag_1 = the last
\* actual consumption for k = 1 and the forecast of step k-1 for k >= 2,
\* lag_3 = the forecast of step k-3 once k > 3, lag_7 = the forecast of
\* step k-7 once k > 7; every forecast value is >= 0.
C25_LagsNameTheirDays ==
    future # NotCalled =>
        \A k \in 1 .. Len(future.fed) :
            /\ future.fed[k].consumption_lag_1 =
                   (IF k = 1 THEN Flt(future.last_consumption) ELSE future.forecast[k - 1])
            /\ k > 3 => future.fed[k].consumption_lag_3 = future.forecast[k - 3]
            /\ k > 7 => future.fed[k].consumption_lag_7 = future.forecast[k - 7]
            /\ Le(Flt(0), future.forecast[k])

\* the validation targets of the request: the last fifth of the kept rows
ValidationActual == TrainingData(request.historical_data).y_test

\* C26: for the fitted variants the accuracy is a number in [0, 1], and it
\* is 0 whenever the mean of the validation targets is 0.
C26_AccuracyZeroOnZeroMean ==
    (Succeeded /\ request.model_type \in FittedTypes) =>
        /\ IsNum(forecast_result.accuracy)
        /\ Le(Flt(0), forecast_result.accuracy) /\ Le(forecast_result.accuracy, Flt(1))
        /\ SumSeq(ValidationActual) = 0 => forecast_result.accuracy = Flt(0)

(***************************************************************************)
(* prepare_features                                                        *)
(***************************************************************************)
Prepared == features # NotCalled

\* the dates of the frame are 1 .. n; the consumption of a date
ConsumedOn(date) ==
    frame[CHOOSE i \in 1 .. Len(frame) : frame[i].date = date].consumption

\* C27 as stated: a frame of n >= 14 rows yields n - 14 rows.
C27_FourteenRowsRemoved ==
    (Prepared /\ Len(frame) >= 14) => Len(features.rows) = Len(frame) - 14

\* C27, amended: prepare_features returns the rows in ascending date order
\* and keeps exactly the rows from the 14th date on, the first at which the
\* lags 1, 3, 7 and the rolling means 3, 7, 14 are all defined; a frame of
\* n >= 13 rows yields n - 13 rows, and row k carries the date, the
\* consumption and the trend index of the (13 + k)-th date.
C27_ThirteenRowsRemoved ==
    Prepared =>
        /\ Len(features.rows) = (IF Len(frame) >= 13 THEN Len(frame) - 13 ELSE 0)
        /\ \A k \in 1 .. Len(features.rows) :
               /\ features.rows[k].date = 13 + k
               /\ features.rows[k].trend = 12 + k
               /\ features.rows[k].consumption = ConsumedOn(13 + k)
               /\ features.rows[k].consumption_lag_1 = Flt(ConsumedOn(12 + k))
               /\ features.rows[k].consumption_lag_3 = Flt(ConsumedOn(10 + k))
               /\ features.rows[k].consumption_lag_7 = Flt(ConsumedOn(6 + k))

\* an unsorted frame of 14 rows: one row is kept
C27_FourteenthRowKept ==
    /\ Prepared
    /\ Len(frame) = 14 /\ frame[1].date = 14
    /\ Len(features.rows) = 1
    /\ features.rows[1].consumption = 10

\* C29: in every suggestion analyze_item_for_reorder returns, estimated_cost
\* is the reported suggested_quantity times unit_price, an absent unit_price
\* counting as 0.
C29_CostOfReportedQuantity ==
    (suggestion # NotCalled /\ suggestion.kind = "suggestion") =>
        suggestion.estimated_cost =
            Mul(Flt(suggestion.suggested_quantity), PyOr(item.unit_price, Flt(0)))

(***************************************************************************)
(* analyze_suppliers                                                       *)
(***************************************************************************)
\* 0.3 * reliability / 5 + 0.3 * (6 - cost) / 5 + 0.4 * quality / 5
CompositeOf(reliability, cost, quality) ==
    Add(Add(Mul(Div(reliability, Flt(5)), Num(3, 10)),
            Mul(Div(Sub(Flt(6), cost), Flt(5)), Num(3, 10))),
        Mul(Div(quality, Flt(5)), Num(2, 5)))

\* C28: analyze_suppliers returns one entry per supplier (none for an empty
\* table), each with composite_score computed from the supplier's stored
\* reliability_score, cost_rating and quality_score; of two suppliers equal
\* in reliability and quality, the lower stored cost_rating scores strictly
\* higher.
C28_CompositeFromStoredScores ==
    supplier_analysis # NotCalled =>
        /\ Len(supplier_analysis.list) = Len(supplier_rows)
        /\ \A i \in 1 .. Len(supplier_rows) :
               supplier_analysis.list[i].composite_score =
                   CompositeOf(supplier_rows[i].reliability_score, supplier_rows[i].cost_rating,
                               supplier_rows[i].quality_score)
        /\ \A i, j \in 1 .. Len(supplier_rows) :
               (/\ supplier_rows[i].reliability_score = supplier_rows[j].reliability_score
                /\ supplier_rows[i].quality_score = supplier_rows[j].quality_score
                /\ Lt(supplier_rows[i].cost_rating, supplier_rows[j].cost_rating)) =>
                   Gt(supplier_analysis.list[i].composite_score,
                      supplier_analysis.list[j].composite_score)

(***************************************************************************)
(* The reordering page: approve, snooze and dismiss                        *)
(***************************************************************************)
Passed == ret.kind = "suggestions"

\* the same drugs with the same priority and quantity, in the same order
SameSuggestions(a, b) ==
    /\ Len(a) = Len(b)
    /\ \A i \in 1 .. Len(a) :
          /\ a[i].id = b[i].id
          /\ a[i].priority = b[i].priority
          /\ a[i].suggested_quantity = b[i].suggested_quantity

====
